---------------------------- MODULE Spec2Model ----------------------------
(***************************************************************************)
(* A model of the GAQL query builder (class GaqlBuilder) and of the        *)
(* validators it calls.                                                    *)
(*                                                                         *)
(* A JavaScript string is a sequence of one-character strings, so that     *)
(* trimming, quote doubling, the identifier grammar and the pattern        *)
(* checks are computed character by character, as the code computes them.  *)
(***************************************************************************)
EXTENDS Integers, Sequences, FiniteSets, TLC

VARIABLES
    b,      \* the GaqlBuilder instance: its seven private fields
    last,   \* the latest call on the builder and what it gave back
    calls,  \* how many fluent calls the caller has made
    probe,  \* the argument under test that the caller's calls carry, if any
    twin,   \* a second builder that is given the same calls in another order
    pending \* for each clause, the calls made on b and not yet on the twin

vars == <<b, last, calls, probe, twin, pending>>

(***************************************************************************)
(* Characters and strings                                                  *)
(***************************************************************************)
Lower == {"a","b","c","d","e","f","g","h","i","j","k","l","m",
          "n","o","p","q","r","s","t","u","v","w","x","y","z"}
Upper == {"A","B","C","D","E","F","G","H","I","J","K","L","M",
          "N","O","P","Q","R","S","T","U","V","W","X","Y","Z"}
Digit == {"0","1","2","3","4","5","6","7","8","9"}
\* the characters String.prototype.trim removes (those the inputs use)
WhiteSpace == {" ", "\t", "\n", "\r"}
\* the characters the regex dot does not match
LineTerminator == {"\n", "\r"}

Q == "'"

RECURSIVE Join(_, _)
\* Array.prototype.join (by halves, which keeps the evaluation shallow)
Join(parts, sep) ==
    IF Len(parts) = 0 THEN <<>>
    ELSE IF Len(parts) = 1 THEN parts[1]
    ELSE LET half == Len(parts) \div 2
         IN  Join(SubSeq(parts, 1, half), sep) \o sep \o
             Join(SubSeq(parts, half + 1, Len(parts)), sep)

\* String.prototype.includes
Contains(s, sub) ==
    \E i \in 1..(Len(s) - Len(sub) + 1) : SubSeq(s, i, i + Len(sub) - 1) = sub

\* String.prototype.trim
trim(s) ==
    LET keep == {i \in 1..Len(s) : s[i] \notin WhiteSpace}
    IN  IF keep = {} THEN <<>>
        ELSE LET lo == CHOOSE i \in keep : \A j \in keep : i <= j
                 hi == CHOOSE i \in keep : \A j \in keep : j <= i
             IN  SubSeq(s, lo, hi)

RECURSIVE ReplaceQuotes(_)
\* s.replace(/'/g, "''") (by halves)
ReplaceQuotes(s) ==
    IF Len(s) = 0 THEN <<>>
    ELSE IF Len(s) = 1 THEN (IF s[1] = Q THEN <<Q, Q>> ELSE s)
    ELSE LET half == Len(s) \div 2
         IN  ReplaceQuotes(SubSeq(s, 1, half)) \o ReplaceQuotes(SubSeq(s, half + 1, Len(s)))

DigitChar(d) ==
    CASE d = 0 -> "0" [] d = 1 -> "1" [] d = 2 -> "2" [] d = 3 -> "3"
      [] d = 4 -> "4" [] d = 5 -> "5" [] d = 6 -> "6" [] d = 7 -> "7"
      [] d = 8 -> "8" [] d = 9 -> "9"

DigitValue(c) ==
    CASE c = "0" -> 0 [] c = "1" -> 1 [] c = "2" -> 2 [] c = "3" -> 3
      [] c = "4" -> 4 [] c = "5" -> 5 [] c = "6" -> 6 [] c = "7" -> 7
      [] c = "8" -> 8 [] c = "9" -> 9

RECURSIVE NatToStr(_)
NatToStr(n) ==
    IF n < 10 THEN <<DigitChar(n)>>
    ELSE NatToStr(n \div 10) \o <<DigitChar(n % 10)>>

\* String(n) for an integer n
NumberToString(n) == IF n < 0 THEN <<"-">> \o NatToStr(0 - n) ELSE NatToStr(n)

RECURSIVE StrToNat(_)
\* Number(s) for a string of decimal digits
StrToNat(s) ==
    IF Len(s) = 0 THEN 0
    ELSE 10 * StrToNat(SubSeq(s, 1, Len(s) - 1)) + DigitValue(s[Len(s)])

(***************************************************************************)
(* constants.ts                                                            *)
(***************************************************************************)
VALID_OPERATORS ==
    { <<"=">>, <<"!", "=">>, <<">">>, <<">", "=">>, <<"<">>, <<"<", "=">> }

VALID_DATE_RANGES ==
    { <<"T","O","D","A","Y">>,
      <<"Y","E","S","T","E","R","D","A","Y">>,
      <<"L","A","S","T","_","7","_","D","A","Y","S">>,
      <<"L","A","S","T","_","1","4","_","D","A","Y","S">>,
      <<"L","A","S","T","_","3","0","_","D","A","Y","S">>,
      <<"L","A","S","T","_","B","U","S","I","N","E","S","S","_","W","E","E","K">>,
      <<"L","A","S","T","_","W","E","E","K","_","S","U","N","_","S","A","T">>,
      <<"L","A","S","T","_","W","E","E","K","_","M","O","N","_","S","U","N">>,
      <<"T","H","I","S","_","M","O","N","T","H">>,
      <<"L","A","S","T","_","M","O","N","T","H">>,
      <<"A","L","L","_","T","I","M","E">> }

AGGREGATE_FUNCTIONS ==
    { <<"S","U","M">>, <<"C","O","U","N","T">>, <<"A","V","G">>,
      <<"M","I","N">>, <<"M","A","X">>,
      <<"C","O","U","N","T","_","D","I","S","T","I","N","C","T">> }

SORT_DIRECTIONS == { <<"A","S","C">>, <<"D","E","S","C">> }

MAX_SELECT_FIELDS == 500
MAX_WHERE_CONDITIONS == 100
MAX_ORDER_BY_FIELDS == 10
MAX_GROUP_BY_FIELDS == 10
MAX_PARAMETERS == 50
MAX_ARRAY_VALUES == 1000
MAX_QUERY_LENGTH == 100000
MAX_REGEX_LENGTH == 1000
MAX_REGEX_COMPLEXITY == 50

(***************************************************************************)
(* Long strings.  An element of a string is a character, or one of the     *)
(* runs below: a run stands for the letter a written RunWidth times in a   *)
(* row ('a'.repeat(n)).  A run holds no quote, no white space and no       *)
(* keyword, so the character-by-character operations pass over it as over  *)
(* a letter; only the length of the string tells a run from a character.   *)
(***************************************************************************)
RunBelow == "a{99969}"
RunExact == "a{99970}"
RunAbove == "a{99971}"
Runs == {RunBelow, RunExact, RunAbove}

RunWidth(char) ==
    CASE char = RunBelow -> MAX_QUERY_LENGTH - 31
      [] char = RunExact -> MAX_QUERY_LENGTH - 30
      [] char = RunAbove -> MAX_QUERY_LENGTH - 29
      [] OTHER -> 1

\* String.prototype.length
Length(s) ==
    LET runs == {i \in 1..Len(s) : s[i] \in Runs}
        RECURSIVE Total(_)
        Total(set) ==
            IF set = {} THEN 0
            ELSE LET i == CHOOSE j \in set : TRUE
                 IN  RunWidth(s[i]) + Total(set \ {i})
    IN  (Len(s) - Cardinality(runs)) + Total(runs)

(***************************************************************************)
(* validators.ts                                                           *)
(***************************************************************************)
\* /^[a-zA-Z_][a-zA-Z0-9_]*$/
IsPlainIdentifier(s) ==
    /\ Len(s) >= 1
    /\ s[1] \in Lower \cup Upper \cup {"_"}
    /\ \A i \in 2..Len(s) : s[i] \in Lower \cup Upper \cup Digit \cup {"_"}

\* /^[a-zA-Z_][a-zA-Z0-9_]*(\.[a-zA-Z_][a-zA-Z0-9_]*)*$/
\* every character is a word character or a dot, and every segment between
\* dots (and the ends) starts with a letter or an underscore
IsDottedIdentifier(s) ==
    /\ Len(s) >= 1
    /\ \A i \in 1..Len(s) : s[i] \in Lower \cup Upper \cup Digit \cup {"_", "."}
    /\ \A i \in 1..Len(s) :
          (i = 1 \/ s[i - 1] = ".") => s[i] \in Lower \cup Upper \cup {"_"}
    /\ s[Len(s)] # "."

\* /^(SUM|COUNT|...)\(identifier\)$/
IsAggregateExpression(s) ==
    \E fn \in AGGREGATE_FUNCTIONS :
        /\ Len(s) >= Len(fn) + 2
        /\ SubSeq(s, 1, Len(fn)) = fn
        /\ s[Len(fn) + 1] = "("
        /\ s[Len(s)] = ")"
        /\ IsDottedIdentifier(SubSeq(s, Len(fn) + 2, Len(s) - 1))

isValidFieldName(field) ==
    IF IsAggregateExpression(field) THEN TRUE ELSE IsDottedIdentifier(field)

\* a variant of isValidResourceName that takes dotted names, as field names are
isValidResourceName_AllowsDots(resource) == IsDottedIdentifier(resource)

isValidResourceName(resource) == IsPlainIdentifier(resource)

isValidParameterName(paramName) == IsPlainIdentifier(paramName)

isValidOperator(operator) == operator \in VALID_OPERATORS

\* /^\d{4}-\d{2}-\d{2}$/
IsDateShaped(s) ==
    /\ Len(s) = 10
    /\ \A i \in {1, 2, 3, 4, 6, 7, 9, 10} : s[i] \in Digit
    /\ s[5] = "-"
    /\ s[8] = "-"

IsLeapYear(y) == (y % 4 = 0 /\ y % 100 # 0) \/ y % 400 = 0

\* days of month index m (0 = January) of year y
DaysInMonth(y, m) ==
    IF m = 1 THEN (IF IsLeapYear(y) THEN 29 ELSE 28)
    ELSE IF m \in {3, 5, 8, 10} THEN 30 ELSE 31

RECURSIVE NormalizeDate(_, _, _)
\* the calendar date new Date(y, m, d) denotes once the month index m and
\* the day d have been carried into range
NormalizeDate(y, m, d) ==
    IF m < 0 THEN NormalizeDate(y - 1, m + 12, d)
    ELSE IF m > 11 THEN NormalizeDate(y + 1, m - 12, d)
    ELSE IF d < 1 THEN
        IF m = 0 THEN NormalizeDate(y - 1, 11, d + 31)
        ELSE NormalizeDate(y, m - 1, d + DaysInMonth(y, m - 1))
    ELSE IF d > DaysInMonth(y, m) THEN NormalizeDate(y, m + 1, d - DaysInMonth(y, m))
    ELSE [year |-> y, month |-> m, date |-> d]

\* new Date(year, monthIndex, day): a year of 0..99 means 1900 + year
NewDate(year, monthIndex, day) ==
    NormalizeDate(IF year >= 0 /\ year <= 99 THEN 1900 + year ELSE year,
                  monthIndex, day)

isValidDateRange(dateRange) ==
    IF dateRange \in VALID_DATE_RANGES THEN TRUE
    ELSE IF ~IsDateShaped(dateRange) THEN FALSE
    ELSE LET year  == StrToNat(SubSeq(dateRange, 1, 4))
             month == StrToNat(SubSeq(dateRange, 6, 7))
             day   == StrToNat(SubSeq(dateRange, 9, 10))
             date  == NewDate(year, month - 1, day)
         IN  date.year = year /\ date.month = month - 1 /\ date.date = day

\* /\(.*\)\{(\d{3,}|\d+,)\}/ : a ")" that closes some "(" with no line
\* terminator in between, then a brace holding three or more digits, or
\* digits and a comma, and nothing else
HasLargeRepetition(p) ==
    \E j \in 2..(Len(p) - 1) :
        /\ p[j] = ")"
        /\ p[j + 1] = "{"
        /\ \E k \in (j + 3)..Len(p) :
              /\ p[k] = "}"
              /\ \/ /\ k - (j + 2) >= 3
                    /\ \A x \in (j + 2)..(k - 1) : p[x] \in Digit
                 \/ /\ k - (j + 2) >= 2
                    /\ p[k - 1] = ","
                    /\ \A x \in (j + 2)..(k - 2) : p[x] \in Digit
        /\ \E i \in 1..(j - 1) :
              /\ p[i] = "("
              /\ \A x \in (i + 1)..(j - 1) : p[x] \notin LineTerminator

\* the dangerousPatterns list: does any of them match somewhere in p
MatchesDangerousPattern(p) ==
    \/ Contains(p, <<".", "*", ".", "*">>)
    \/ Contains(p, <<".", "+", ".", "+">>)
    \/ Contains(p, <<"\\", "w", "*", "\\", "w", "*", "\\", "w", "*">>)
    \/ Contains(p, <<"\\", "w", "+", "\\", "w", "+", "\\", "w", "+">>)
    \/ Contains(p, <<"[", "\\", "w", "]", "*", "[", "\\", "w", "]", "*",
                     "[", "\\", "w", "]", "*">>)
    \/ HasLargeRepetition(p)
    \/ Contains(p, <<"(", ".", "*", "|", ".", "*", ")">>)
    \/ Contains(p, <<"(", ".", "+", "|", ".", "+", ")">>)

Max(x, y) == IF x > y THEN x ELSE y

\* One pass of the nesting loop over a stretch of the pattern, as what it
\* does to the loop's two variables: entered at depth d it leaves at depth
\* Max(d + net, floor), and the depths it passes through are at most
\* Max(d + rise, peak).
ScanOne(char) ==
    IF char = "(" THEN [net |-> 1, floor |-> 1, rise |-> 1, peak |-> 1]
    ELSE IF char = ")" THEN [net |-> 0 - 1, floor |-> 0, rise |-> 0 - 1, peak |-> 0]
    ELSE [net |-> 0, floor |-> 0, rise |-> 0, peak |-> 0]

\* the passes over two stretches, one after the other
ScanThen(x, y) ==
    [ net   |-> x.net + y.net,
      floor |-> Max(x.floor + y.net, y.floor),
      rise  |-> Max(x.rise, x.net + y.rise),
      peak  |-> Max(Max(x.peak, x.floor + y.rise), y.peak) ]

RECURSIVE NestingScan(_)
\* the loop over the pattern's characters (by halves)
NestingScan(p) ==
    IF Len(p) = 0 THEN [net |-> 0, floor |-> 0, rise |-> 0, peak |-> 0]
    ELSE IF Len(p) = 1 THEN ScanOne(p[1])
    ELSE LET half == Len(p) \div 2
         IN  ScanThen(NestingScan(SubSeq(p, 1, half)),
                      NestingScan(SubSeq(p, half + 1, Len(p))))

\* maxDepth after the loop, which starts with depth = 0 and maxDepth = 0
MaxNestingDepth(p) == NestingScan(p).peak

isSafeRegexPattern_Exclusive(pattern) ==
    IF Len(pattern) >= MAX_REGEX_LENGTH THEN FALSE
    ELSE IF MatchesDangerousPattern(pattern) THEN FALSE
    ELSE IF MaxNestingDepth(pattern) >= MAX_REGEX_COMPLEXITY THEN FALSE
    ELSE TRUE

isSafeRegexPattern(pattern) ==
    IF Len(pattern) > MAX_REGEX_LENGTH THEN FALSE
    ELSE IF MatchesDangerousPattern(pattern) THEN FALSE
    ELSE IF MaxNestingDepth(pattern) > MAX_REGEX_COMPLEXITY THEN FALSE
    ELSE TRUE

(***************************************************************************)
(* Values (GaqlValue = string | number | boolean | null)                   *)
(***************************************************************************)
StrVal(s)  == [t |-> "string",  s |-> s,    n |-> 0, bo |-> FALSE]
NumVal(n)  == [t |-> "number",  s |-> <<>>, n |-> n, bo |-> FALSE]
BoolVal(x) == [t |-> "boolean", s |-> <<>>, n |-> 0, bo |-> x]
NullVal    == [t |-> "null",    s |-> <<>>, n |-> 0, bo |-> FALSE]

\* the numbers that are not integers of the model: NaN, Infinity, -Infinity,
\* and the power of ten 10^k (s names the sort, n holds k)
NaN         == [t |-> "number", s |-> <<"N","a","N">>, n |-> 0, bo |-> FALSE]
Infinity    == [t |-> "number", s |-> <<"I","n","f","i","n","i","t","y">>, n |-> 0, bo |-> FALSE]
NegInfinity == [t |-> "number", s |-> <<"-","I","n","f","i","n","i","t","y">>, n |-> 0, bo |-> FALSE]
TenTo(k)    == [t |-> "number", s |-> <<"1","e">>, n |-> k, bo |-> FALSE]

\* Number.isFinite(value) for a number
isFinite(value) == value.s \in {<<>>, <<"1","e">>}

\* Number::toString of 10^k: digits up to 10^20 and down to 10^-6, exponent
\* notation beyond
TenToString(k) ==
    IF k >= 21 THEN <<"1","e","+">> \o NatToStr(k)
    ELSE IF k >= 0 THEN <<"1">> \o [i \in 1..k |-> "0"]
    ELSE IF k >= -6 THEN <<"0",".">> \o [i \in 1..((0 - k) - 1) |-> "0"] \o <<"1">>
    ELSE <<"1","e","-">> \o NatToStr(0 - k)

\* String(value) for a number
NumberString(value) ==
    IF value.s = <<>> THEN NumberToString(value.n)
    ELSE IF value.s = <<"1","e">> THEN TenToString(value.n)
    ELSE value.s

\* String(value)
JsString(value) ==
    CASE value.t = "string"  -> value.s
      [] value.t = "number"  -> NumberString(value)
      [] value.t = "boolean" -> (IF value.bo THEN <<"t","r","u","e">>
                                 ELSE <<"f","a","l","s","e">>)
      [] value.t = "null"    -> <<"n","u","l","l">>

(***************************************************************************)
(* GaqlBuilder: state                                                      *)
(*                                                                         *)
(* #selectFields and #queryParameters are the two fields that are          *)
(* reassigned, so each holds a reference: owner says whether the object    *)
(* it points to was made by the builder or is the very object the caller   *)
(* passed in (and still holds).  The three readonly arrays are made by     *)
(* the builder and never handed out.                                       *)
(***************************************************************************)
NewBuilder ==
    [ selectFields    |-> [owner |-> "builder", items |-> <<>>],
      fromResource    |-> <<>>,
      whereConditions |-> <<>>,
      groupByFields   |-> <<>>,
      orderByFields   |-> <<>>,
      limitCount      |-> <<>>,      \* <<>> is null, <<n>> is the number n
      queryParameters |-> [owner |-> "builder", entries |-> <<>>] ]

\* what a fluent call gives back: the builder after it, the error raised and
\* the message of the error
Return(bb) == [b |-> bb, err |-> "none", msg |-> <<>>]
Throw(bb, kind, message) == [b |-> bb, err |-> kind, msg |-> message]

(***************************************************************************)
(* Error messages                                                          *)
(***************************************************************************)
\* validateFieldName
FieldNameMessage(field) ==
    <<"I","n","v","a","l","i","d"," ","f","i","e","l","d"," ","n","a","m","e","."," ","E","x",
      "p","e","c","t","e","d",":"," ","a","l","p","h","a","n","u","m","e","r","i","c"," ",
      "w","i","t","h"," ","d","o","t","s","/","u","n","d","e","r","s","c","o","r","e","s",
      " ","o","r"," ","a","g","g","r","e","g","a","t","e"," ","f","u","n","c","t","i","o",
      "n",","," ","R","e","c","e","i","v","e","d",":"," ","\"">>
    \o field
    \o <<"\"">>

\* validateResourceName
ResourceNameMessage(resource) ==
    <<"I","n","v","a","l","i","d"," ","r","e","s","o","u","r","c","e"," ","n","a","m","e",".",
      " ","E","x","p","e","c","t","e","d",":"," ","a","l","p","h","a","n","u","m","e","r",
      "i","c"," ","w","i","t","h"," ","u","n","d","e","r","s","c","o","r","e","s"," ","o",
      "n","l","y",","," ","R","e","c","e","i","v","e","d",":"," ","\"">>
    \o resource
    \o <<"\"">>

\* validateParameterName
ParameterNameMessage(paramName) ==
    <<"I","n","v","a","l","i","d"," ","p","a","r","a","m","e","t","e","r"," ","n","a","m","e",
      "."," ","E","x","p","e","c","t","e","d",":"," ","a","l","p","h","a","n","u","m","e",
      "r","i","c"," ","w","i","t","h"," ","u","n","d","e","r","s","c","o","r","e","s"," ",
      "o","n","l","y",","," ","R","e","c","e","i","v","e","d",":"," ","\"">>
    \o paramName
    \o <<"\"">>

\* validateDateRange; VALID_DATE_RANGES.join(', ') written out
DateRangeMessage(dateRange) ==
    <<"I","n","v","a","l","i","d"," ","d","a","t","e"," ","r","a","n","g","e","."," ","E","x",
      "p","e","c","t","e","d"," ","o","n","e"," ","o","f",":"," ","T","O","D","A","Y",",",
      " ","Y","E","S","T","E","R","D","A","Y",","," ","L","A","S","T","_","7","_","D","A",
      "Y","S",","," ","L","A","S","T","_","1","4","_","D","A","Y","S",","," ","L","A","S",
      "T","_","3","0","_","D","A","Y","S",","," ","L","A","S","T","_","B","U","S","I","N",
      "E","S","S","_","W","E","E","K",","," ","L","A","S","T","_","W","E","E","K","_","S",
      "U","N","_","S","A","T",","," ","L","A","S","T","_","W","E","E","K","_","M","O","N",
      "_","S","U","N",","," ","T","H","I","S","_","M","O","N","T","H",","," ","L","A","S",
      "T","_","M","O","N","T","H",","," ","A","L","L","_","T","I","M","E",","," ","o","r",
      " ","d","a","t","e"," ","i","n"," ","Y","Y","Y","Y","-","M","M","-","D","D"," ","f",
      "o","r","m","a","t",","," ","R","e","c","e","i","v","e","d",":"," ","\"">>
    \o dateRange
    \o <<"\"">>

\* validateOperator; VALID_OPERATORS.join(', ') written out
OperatorMessage(operator) ==
    <<"I","n","v","a","l","i","d"," ","o","p","e","r","a","t","o","r","."," ","E","x","p","e",
      "c","t","e","d"," ","o","n","e"," ","o","f",":"," ","=",","," ","!","=",","," ",">",
      ","," ",">","=",","," ","<",","," ","<","=",","," ","R","e","c","e","i","v","e","d",
      ":"," ","\"">>
    \o operator
    \o <<"\"">>

\* validateRegexPattern
RegexPatternMessage ==
    <<"R","e","g","e","x"," ","p","a","t","t","e","r","n"," ","i","s"," ","p","o","t","e","n",
      "t","i","a","l","l","y"," ","d","a","n","g","e","r","o","u","s"," ","(","R","e","D",
      "o","S"," ","r","i","s","k",")","."," ","P","a","t","t","e","r","n"," ","e","x","c",
      "e","e","d","s"," ","c","o","m","p","l","e","x","i","t","y"," ","l","i","m","i","t",
      "s"," ","o","r"," ","c","o","n","t","a","i","n","s"," ","d","a","n","g","e","r","o",
      "u","s"," ","c","o","n","s","t","r","u","c","t","s",".">>

\* select, no field
SelectEmptyMessage ==
    <<"S","E","L","E","C","T"," ","c","l","a","u","s","e"," ","r","e","q","u","i","r","e","s",
      " ","a","t"," ","l","e","a","s","t"," ","o","n","e"," ","f","i","e","l","d","."," ",
      "E","x","p","e","c","t","e","d",":"," ","n","o","n","-","e","m","p","t","y"," ","a",
      "r","r","a","y",","," ","R","e","c","e","i","v","e","d",":"," ","e","m","p","t","y",
      " ","a","r","r","a","y">>

\* select, more than MAX_SELECT_FIELDS fields
SelectLimitMessage(n) ==
    <<"S","E","L","E","C","T"," ","c","l","a","u","s","e"," ","e","x","c","e","e","d","s"," ",
      "m","a","x","i","m","u","m"," ","f","i","e","l","d"," ","l","i","m","i","t","."," ",
      "E","x","p","e","c","t","e","d",":"," ","<","="," ">>
    \o NumberToString(MAX_SELECT_FIELDS)
    \o <<" ","f","i","e","l","d","s",","," ","R","e","c","e","i","v","e","d",":"," ">>
    \o NumberToString(n)
    \o <<" ","f","i","e","l","d","s">>

\* from, nothing but white space
FromEmptyMessage(resource) ==
    <<"F","R","O","M"," ","c","l","a","u","s","e"," ","r","e","q","u","i","r","e","s"," ","a",
      " ","r","e","s","o","u","r","c","e","."," ","E","x","p","e","c","t","e","d",":"," ",
      "n","o","n","-","e","m","p","t","y"," ","s","t","r","i","n","g",","," ","R","e","c",
      "e","i","v","e","d",":"," ","\"">>
    \o resource
    \o <<"\"">>

\* where, MAX_WHERE_CONDITIONS conditions held
WhereLimitMessage(n) ==
    <<"W","H","E","R","E"," ","c","l","a","u","s","e"," ","e","x","c","e","e","d","s"," ","m",
      "a","x","i","m","u","m"," ","c","o","n","d","i","t","i","o","n"," ","l","i","m","i",
      "t","."," ","E","x","p","e","c","t","e","d",":"," ","<"," ">>
    \o NumberToString(MAX_WHERE_CONDITIONS)
    \o <<" ","c","o","n","d","i","t","i","o","n","s",","," ","R","e","c","e","i","v","e","d",":",
      " ">>
    \o NumberToString(n)
    \o <<" ","c","o","n","d","i","t","i","o","n","s">>

\* whereIn, whereNotIn, whereContainsAll/Any/None, no value
ArrayEmptyMessage(keyword, field) ==
    keyword
    \o <<" ","c","l","a","u","s","e"," ","r","e","q","u","i","r","e","s"," ","a","t"," ","l","e",
      "a","s","t"," ","o","n","e"," ","v","a","l","u","e","."," ","E","x","p","e","c","t",
      "e","d",":"," ","n","o","n","-","e","m","p","t","y"," ","a","r","r","a","y",","," ",
      "R","e","c","e","i","v","e","d",":"," ","e","m","p","t","y"," ","a","r","r","a","y",
      " ","f","o","r"," ","f","i","e","l","d"," ","\"">>
    \o field
    \o <<"\"">>

\* groupBy, no field
GroupByEmptyMessage ==
    <<"G","R","O","U","P"," ","B","Y"," ","c","l","a","u","s","e"," ","r","e","q","u","i","r",
      "e","s"," ","a","t"," ","l","e","a","s","t"," ","o","n","e"," ","f","i","e","l","d",
      "."," ","E","x","p","e","c","t","e","d",":"," ","n","o","n","-","e","m","p","t","y",
      " ","a","r","r","a","y",","," ","R","e","c","e","i","v","e","d",":"," ","e","m","p",
      "t","y"," ","a","r","r","a","y">>

\* orderBy, direction
DirectionMessage(direction) ==
    <<"O","R","D","E","R"," ","B","Y"," ","d","i","r","e","c","t","i","o","n"," ","i","n","v",
      "a","l","i","d","."," ","E","x","p","e","c","t","e","d",":"," ","A","S","C"," ","o",
      "r"," ","D","E","S","C",","," ","R","e","c","e","i","v","e","d",":"," ">>
    \o direction

\* limit
LimitMessage(count) ==
    <<"L","I","M","I","T"," ","m","u","s","t"," ","b","e"," ","a"," ","p","o","s","i","t","i",
      "v","e"," ","i","n","t","e","g","e","r","."," ","E","x","p","e","c","t","e","d",":",
      " ","p","o","s","i","t","i","v","e"," ","i","n","t","e","g","e","r",","," ","R","e",
      "c","e","i","v","e","d",":"," ">>
    \o NumberToString(count)

\* parameters, no entry
ParametersEmptyMessage ==
    <<"P","A","R","A","M","E","T","E","R","S"," ","c","l","a","u","s","e"," ","r","e","q","u",
      "i","r","e","s"," ","a","t"," ","l","e","a","s","t"," ","o","n","e"," ","p","a","r",
      "a","m","e","t","e","r","."," ","E","x","p","e","c","t","e","d",":"," ","n","o","n",
      "-","e","m","p","t","y"," ","o","b","j","e","c","t",","," ","R","e","c","e","i","v",
      "e","d",":"," ","e","m","p","t","y"," ","o","b","j","e","c","t">>

\* parameters, more than MAX_PARAMETERS entries
ParametersLimitMessage(n) ==
    <<"P","A","R","A","M","E","T","E","R","S"," ","c","l","a","u","s","e"," ","e","x","c","e",
      "e","d","s"," ","m","a","x","i","m","u","m"," ","p","a","r","a","m","e","t","e","r",
      " ","l","i","m","i","t","."," ","E","x","p","e","c","t","e","d",":"," ","<","="," ">>
    \o NumberToString(MAX_PARAMETERS)
    \o <<" ","p","a","r","a","m","e","t","e","r","s",","," ","R","e","c","e","i","v","e","d",":",
      " ">>
    \o NumberToString(n)
    \o <<" ","p","a","r","a","m","e","t","e","r","s">>

\* typeof value
TypeOf(value) ==
    IF value.t = "null" THEN <<"o","b","j","e","c","t">>
    ELSE IF value.t = "string" THEN <<"s","t","r","i","n","g">>
    ELSE IF value.t = "number" THEN <<"n","u","m","b","e","r">>
    ELSE <<"b","o","o","l","e","a","n">>

\* parameters, a value that is no boolean and no number
ParameterTypeMessage(paramName, paramValue) ==
    <<"I","n","v","a","l","i","d"," ","p","a","r","a","m","e","t","e","r"," ","v","a","l","u",
      "e"," ","t","y","p","e"," ","f","o","r"," ","'">>
    \o paramName
    \o <<"'","."," ","E","x","p","e","c","t","e","d",":"," ","b","o","o","l","e","a","n"," ","o",
      "r"," ","n","u","m","b","e","r",","," ","R","e","c","e","i","v","e","d",":"," ">>
    \o TypeOf(paramValue)

\* parameters, a number that is not finite
ParameterFiniteMessage(paramName, paramValue) ==
    <<"I","n","v","a","l","i","d"," ","p","a","r","a","m","e","t","e","r"," ","v","a","l","u",
      "e"," ","f","o","r"," ","'">>
    \o paramName
    \o <<"'","."," ","E","x","p","e","c","t","e","d",":"," ","f","i","n","i","t","e"," ","n","u",
      "m","b","e","r",","," ","R","e","c","e","i","v","e","d",":"," ">>
    \o JsString(paramValue)

\* validateRequiredClauses, no field selected
SelectRequiredMessage ==
    <<"S","E","L","E","C","T"," ","c","l","a","u","s","e"," ","i","s"," ","r","e","q","u","i",
      "r","e","d","."," ","E","x","p","e","c","t","e","d",":"," ","a","t"," ","l","e","a",
      "s","t"," ","o","n","e"," ","f","i","e","l","d"," ","s","e","l","e","c","t","e","d",
      ","," ","R","e","c","e","i","v","e","d",":"," ","n","o"," ","f","i","e","l","d","s",
      " ","s","e","l","e","c","t","e","d">>

\* validateRequiredClauses, no source
FromRequiredMessage ==
    <<"F","R","O","M"," ","c","l","a","u","s","e"," ","i","s"," ","r","e","q","u","i","r","e",
      "d","."," ","E","x","p","e","c","t","e","d",":"," ","r","e","s","o","u","r","c","e",
      " ","n","a","m","e",","," ","R","e","c","e","i","v","e","d",":"," ","e","m","p","t",
      "y"," ","r","e","s","o","u","r","c","e">>

\* validateQuerySize
QueryLengthMessage(n) ==
    <<"Q","u","e","r","y"," ","e","x","c","e","e","d","s"," ","m","a","x","i","m","u","m"," ",
      "l","e","n","g","t","h"," ","l","i","m","i","t","."," ","E","x","p","e","c","t","e",
      "d",":"," ","<","="," ">>
    \o NumberToString(MAX_QUERY_LENGTH)
    \o <<" ","c","h","a","r","a","c","t","e","r","s",","," ","R","e","c","e","i","v","e","d",":",
      " ">>
    \o NumberToString(n)
    \o <<" ","c","h","a","r","a","c","t","e","r","s">>


(***************************************************************************)
(* GaqlBuilder: private formatters                                         *)
(***************************************************************************)
\* a variant of formatValue that leaves single quotes as they are
formatValue_Unescaped(value) ==
    IF value.t = "string" THEN <<Q>> \o value.s \o <<Q>>
    ELSE IF value.t = "boolean" THEN
        (IF value.bo THEN <<"T","R","U","E">> ELSE <<"F","A","L","S","E">>)
    ELSE IF value.t = "null" THEN <<"N","U","L","L">>
    ELSE JsString(value)

formatValue(value) ==
    IF value.t = "string" THEN <<Q>> \o ReplaceQuotes(value.s) \o <<Q>>
    ELSE IF value.t = "boolean" THEN
        (IF value.bo THEN <<"T","R","U","E">> ELSE <<"F","A","L","S","E">>)
    ELSE IF value.t = "null" THEN <<"N","U","L","L">>
    ELSE JsString(value)

formatCondition(field, operator, value) ==
    field \o <<" ">> \o operator \o <<" ">> \o formatValue(value)

\* a variant of formatPattern that leaves single quotes as they are
formatPattern_Verbatim(pattern) == pattern

formatPattern(pattern) == ReplaceQuotes(pattern)

formatParameterValue(value) ==
    IF value.t = "boolean" THEN
        (IF value.bo THEN <<"t","r","u","e">> ELSE <<"f","a","l","s","e">>)
    ELSE JsString(value)

\* values.map((v) => this.formatValue(v)).join(', ')
FormatValues(values) ==
    Join([i \in 1..Len(values) |-> formatValue(values[i])], <<",", " ">>)

\* this.#whereConditions.push(fragment)
PushCondition(bb, fragment) ==
    [bb EXCEPT !.whereConditions = Append(@, fragment)]

(***************************************************************************)
(* GaqlBuilder: fluent operations                                          *)
(***************************************************************************)
\* the first field of the list that validateFieldName refuses
FirstInvalid(fields) ==
    LET bad == {i \in 1..Len(fields) : ~isValidFieldName(fields[i])}
    IN  fields[CHOOSE i \in bad : \A j \in bad : i <= j]

\* a variant of select that checks and stores the fields as given
select_Untrimmed(bb, fields) ==
    IF Len(fields) = 0
        THEN Throw(bb, "ValidationError", SelectEmptyMessage)
    ELSE IF Len(fields) > MAX_SELECT_FIELDS
        THEN Throw(bb, "QueryLimitError", SelectLimitMessage(Len(fields)))
    ELSE IF \E i \in 1..Len(fields) : ~isValidFieldName(fields[i])
         THEN Throw(bb, "ValidationError", FieldNameMessage(FirstInvalid(fields)))
         ELSE Return([bb EXCEPT !.selectFields = [owner |-> "builder", items |-> fields]])

\* a variant of select that keeps the fields of an earlier call
select_KeepsEarlier(bb, fields) ==
    IF Len(fields) = 0
        THEN Throw(bb, "ValidationError", SelectEmptyMessage)
    ELSE IF Len(fields) > MAX_SELECT_FIELDS
        THEN Throw(bb, "QueryLimitError", SelectLimitMessage(Len(fields)))
    ELSE LET trimmed == [i \in 1..Len(fields) |-> trim(fields[i])]
         IN  IF \E i \in 1..Len(fields) : ~isValidFieldName(trimmed[i])
             THEN Throw(bb, "ValidationError", FieldNameMessage(FirstInvalid(trimmed)))
             ELSE IF bb.selectFields.items # <<>> THEN Return(bb)
             ELSE Return([bb EXCEPT !.selectFields =
                              [owner |-> "builder", items |-> trimmed]])

\* a variant of select that adds the fields to those already selected
select_Accumulates(bb, fields) ==
    IF Len(fields) = 0
        THEN Throw(bb, "ValidationError", SelectEmptyMessage)
    ELSE IF Len(fields) > MAX_SELECT_FIELDS
        THEN Throw(bb, "QueryLimitError", SelectLimitMessage(Len(fields)))
    ELSE LET trimmed == [i \in 1..Len(fields) |-> trim(fields[i])]
         IN  IF \E i \in 1..Len(fields) : ~isValidFieldName(trimmed[i])
             THEN Throw(bb, "ValidationError", FieldNameMessage(FirstInvalid(trimmed)))
             ELSE Return([bb EXCEPT !.selectFields =
                              [owner |-> "builder", items |-> @.items \o trimmed]])

select(bb, fields) ==
    IF Len(fields) = 0
        THEN Throw(bb, "ValidationError", SelectEmptyMessage)
    ELSE IF Len(fields) > MAX_SELECT_FIELDS
        THEN Throw(bb, "QueryLimitError", SelectLimitMessage(Len(fields)))
    ELSE LET trimmed == [i \in 1..Len(fields) |-> trim(fields[i])]
         IN  IF \E i \in 1..Len(fields) : ~isValidFieldName(trimmed[i])
             THEN Throw(bb, "ValidationError", FieldNameMessage(FirstInvalid(trimmed)))
             ELSE Return([bb EXCEPT !.selectFields =
                              [owner |-> "builder", items |-> trimmed]])

\* a variant of from that takes any resource, the empty one included
from_Unchecked(bb, resource) ==
    LET trimmedResource == trim(resource)
    IN  Return([bb EXCEPT !.fromResource = trimmedResource])

\* a variant of from that starts the conditions afresh
from_ForgetsConditions(bb, resource) ==
    LET trimmedResource == trim(resource)
    IN  IF trimmedResource = <<>>
        THEN Throw(bb, "ValidationError", FromEmptyMessage(resource))
        ELSE IF ~isValidResourceName(trimmedResource)
        THEN Throw(bb, "ValidationError", ResourceNameMessage(trimmedResource))
        ELSE Return([bb EXCEPT !.fromResource = trimmedResource,
                               !.whereConditions = <<>>])

from(bb, resource) ==
    LET trimmedResource == trim(resource)
    IN  IF trimmedResource = <<>>
        THEN Throw(bb, "ValidationError", FromEmptyMessage(resource))
        ELSE IF ~isValidResourceName(trimmedResource)
        THEN Throw(bb, "ValidationError", ResourceNameMessage(trimmedResource))
        ELSE Return([bb EXCEPT !.fromResource = trimmedResource])

\* a variant of where that lets one condition past the ceiling
where_CeilingOffByOne(bb, field, operator, value) ==
    IF Len(bb.whereConditions) > MAX_WHERE_CONDITIONS
        THEN Throw(bb, "QueryLimitError", WhereLimitMessage(Len(bb.whereConditions)))
    ELSE IF ~isValidOperator(operator)
        THEN Throw(bb, "ValidationError", OperatorMessage(operator))
    ELSE IF ~isValidFieldName(field)
        THEN Throw(bb, "ValidationError", FieldNameMessage(field))
    ELSE Return(PushCondition(bb, formatCondition(field, operator, value)))

where(bb, field, operator, value) ==
    IF Len(bb.whereConditions) >= MAX_WHERE_CONDITIONS
        THEN Throw(bb, "QueryLimitError", WhereLimitMessage(Len(bb.whereConditions)))
    ELSE IF ~isValidOperator(operator)
        THEN Throw(bb, "ValidationError", OperatorMessage(operator))
    ELSE IF ~isValidFieldName(field)
        THEN Throw(bb, "ValidationError", FieldNameMessage(field))
    ELSE Return(PushCondition(bb, formatCondition(field, operator, value)))

andWhere(bb, field, operator, value) == where(bb, field, operator, value)

\* a variant of ArrayCondition that takes an empty list
ArrayCondition_AllowsEmpty(bb, field, values, keyword) ==
    IF ~isValidFieldName(field)
        THEN Throw(bb, "ValidationError", FieldNameMessage(field))
    ELSE Return(PushCondition(bb,
            field \o <<" ">> \o keyword \o <<" ", "(">> \o FormatValues(values) \o <<")">>))

\* the shape shared by whereIn, whereNotIn and whereContainsAll/Any/None
ArrayCondition(bb, field, values, keyword) ==
    IF Len(values) = 0
        THEN Throw(bb, "ValidationError", ArrayEmptyMessage(keyword, field))
    ELSE IF ~isValidFieldName(field)
        THEN Throw(bb, "ValidationError", FieldNameMessage(field))
    ELSE Return(PushCondition(bb,
            field \o <<" ">> \o keyword \o <<" ", "(">> \o FormatValues(values) \o <<")">>))

whereIn(bb, field, values) ==
    ArrayCondition(bb, field, values, <<"I","N">>)

whereNotIn(bb, field, values) ==
    ArrayCondition(bb, field, values, <<"N","O","T"," ","I","N">>)

whereContainsAll(bb, field, values) ==
    ArrayCondition(bb, field, values, <<"C","O","N","T","A","I","N","S"," ","A","L","L">>)

whereContainsAny(bb, field, values) ==
    ArrayCondition(bb, field, values, <<"C","O","N","T","A","I","N","S"," ","A","N","Y">>)

whereContainsNone(bb, field, values) ==
    ArrayCondition(bb, field, values, <<"C","O","N","T","A","I","N","S"," ","N","O","N","E">>)

whereLike(bb, field, pattern) ==
    IF ~isValidFieldName(field)
        THEN Throw(bb, "ValidationError", FieldNameMessage(field))
    ELSE Return(PushCondition(bb,
            field \o <<" ","L","I","K","E"," ">> \o <<Q>> \o formatPattern(pattern) \o <<Q>>))

whereNotLike(bb, field, pattern) ==
    IF ~isValidFieldName(field)
        THEN Throw(bb, "ValidationError", FieldNameMessage(field))
    ELSE Return(PushCondition(bb,
            field \o <<" ","N","O","T"," ","L","I","K","E"," ">>
                  \o <<Q>> \o formatPattern(pattern) \o <<Q>>))

whereNull(bb, field) ==
    IF ~isValidFieldName(field)
        THEN Throw(bb, "ValidationError", FieldNameMessage(field))
    ELSE Return(PushCondition(bb, field \o <<" ","I","S"," ","N","U","L","L">>))

whereNotNull(bb, field) ==
    IF ~isValidFieldName(field)
        THEN Throw(bb, "ValidationError", FieldNameMessage(field))
    ELSE Return(PushCondition(bb,
            field \o <<" ","I","S"," ","N","O","T"," ","N","U","L","L">>))

whereBetween(bb, field, start, end) ==
    IF ~isValidFieldName(field)
        THEN Throw(bb, "ValidationError", FieldNameMessage(field))
    ELSE Return(PushCondition(bb,
            field \o <<" ","B","E","T","W","E","E","N"," ">> \o formatValue(start)
                  \o <<" ","A","N","D"," ">> \o formatValue(end)))

whereDuring(bb, field, dateRange) ==
    IF ~isValidFieldName(field)
        THEN Throw(bb, "ValidationError", FieldNameMessage(field))
    ELSE IF ~isValidDateRange(dateRange)
        THEN Throw(bb, "ValidationError", DateRangeMessage(dateRange))
    ELSE LET isCustomDate   == IsDateShaped(dateRange)
             formattedRange == IF isCustomDate THEN <<Q>> \o dateRange \o <<Q>>
                               ELSE dateRange
         IN  Return(PushCondition(bb,
                 field \o <<" ","D","U","R","I","N","G"," ">> \o formattedRange))

whereRegexpMatch(bb, field, pattern) ==
    IF ~isValidFieldName(field)
        THEN Throw(bb, "ValidationError", FieldNameMessage(field))
    ELSE IF ~isSafeRegexPattern(pattern)
        THEN Throw(bb, "SecurityError", RegexPatternMessage)
    ELSE Return(PushCondition(bb,
            field \o <<" ","R","E","G","E","X","P","_","M","A","T","C","H"," ">>
                  \o <<Q>> \o formatPattern(pattern) \o <<Q>>))

whereNotRegexpMatch(bb, field, pattern) ==
    IF ~isValidFieldName(field)
        THEN Throw(bb, "ValidationError", FieldNameMessage(field))
    ELSE IF ~isSafeRegexPattern(pattern)
        THEN Throw(bb, "SecurityError", RegexPatternMessage)
    ELSE Return(PushCondition(bb,
            field \o <<" ","N","O","T"," ","R","E","G","E","X","P","_","M","A","T","C","H"," ">>
                  \o <<Q>> \o formatPattern(pattern) \o <<Q>>))

\* the loop of groupBy trims, validates and pushes one field at a time: the
\* fields before the first invalid one have been pushed when it throws
groupBy(bb, fields) ==
    IF Len(fields) = 0
        THEN Throw(bb, "ValidationError", GroupByEmptyMessage)
    ELSE LET trimmed == [i \in 1..Len(fields) |-> trim(fields[i])]
             bad     == {i \in 1..Len(fields) : ~isValidFieldName(trimmed[i])}
             stop    == IF bad = {} THEN Len(fields) + 1
                        ELSE CHOOSE i \in bad : \A j \in bad : i <= j
             pushed  == [bb EXCEPT !.groupByFields = @ \o SubSeq(trimmed, 1, stop - 1)]
         IN  IF bad = {} THEN Return(pushed) ELSE Throw(pushed, "ValidationError", FieldNameMessage(trimmed[stop]))

\* the argument the caller left out
undefined == <<"undefined">>

\* a variant of orderBy that checks the field before the direction
orderBy_FieldFirst(bb, field, direction) ==
    LET given == IF direction = undefined THEN <<"A","S","C">> ELSE direction
    IN  IF ~isValidFieldName(field)
        THEN Throw(bb, "ValidationError", FieldNameMessage(field))
        ELSE IF given \notin SORT_DIRECTIONS
        THEN Throw(bb, "ValidationError", DirectionMessage(given))
        ELSE Return([bb EXCEPT !.orderByFields =
                         Append(@, [field |-> field, direction |-> given])])

\* direction: 'ASC' | 'DESC' = 'ASC'
orderBy(bb, field, direction) ==
    LET given == IF direction = undefined THEN <<"A","S","C">> ELSE direction
    IN  IF given \notin SORT_DIRECTIONS
        THEN Throw(bb, "ValidationError", DirectionMessage(given))
        ELSE IF ~isValidFieldName(field)
        THEN Throw(bb, "ValidationError", FieldNameMessage(field))
        ELSE Return([bb EXCEPT !.orderByFields =
                         Append(@, [field |-> field, direction |-> given])])

\* count is an integer here: Number.isInteger(count) holds
limit(bb, count) ==
    IF count <= 0
        THEN Throw(bb, "ValidationError", LimitMessage(count))
    ELSE Return([bb EXCEPT !.limitCount = <<count>>])

\* the error the validation loop of parameters() raises for one entry
ParameterEntryError(entry) ==
    IF ~isValidParameterName(entry.key) THEN "ValidationError"
    ELSE IF entry.value.t \notin {"boolean", "number"} THEN "SecurityError"
    ELSE IF entry.value.t = "number" /\ ~isFinite(entry.value) THEN "SecurityError"
    ELSE "none"

\* the message of that error
ParameterEntryMessage(entry) ==
    IF ~isValidParameterName(entry.key) THEN ParameterNameMessage(entry.key)
    ELSE IF entry.value.t \notin {"boolean", "number"}
         THEN ParameterTypeMessage(entry.key, entry.value)
    ELSE ParameterFiniteMessage(entry.key, entry.value)

\* a variant of parameters that refuses a map of MAX_PARAMETERS entries
parameters_CeilingOffByOne(bb, params) ==
    IF Len(params) = 0
        THEN Throw(bb, "ValidationError", ParametersEmptyMessage)
    ELSE IF Len(params) >= MAX_PARAMETERS
        THEN Throw(bb, "QueryLimitError", ParametersLimitMessage(Len(params)))
    ELSE LET bad == {i \in 1..Len(params) : ParameterEntryError(params[i]) # "none"}
         IN  IF bad # {}
             THEN LET entry == params[CHOOSE i \in bad : \A j \in bad : i <= j]
                  IN  Throw(bb, ParameterEntryError(entry), ParameterEntryMessage(entry))
             ELSE Return([bb EXCEPT !.queryParameters =
                              [owner |-> "caller", entries |-> params]])

\* params is the caller's object, as the sequence of its entries in
\* insertion order; on success the builder keeps that very object
\* a variant of parameters that keeps the earlier entries under other keys
parameters_Merges(bb, params) ==
    IF Len(params) = 0
        THEN Throw(bb, "ValidationError", ParametersEmptyMessage)
    ELSE IF Len(params) > MAX_PARAMETERS
        THEN Throw(bb, "QueryLimitError", ParametersLimitMessage(Len(params)))
    ELSE LET bad == {i \in 1..Len(params) : ParameterEntryError(params[i]) # "none"}
             kept == SelectSeq(bb.queryParameters.entries,
                               LAMBDA e : \A i \in 1..Len(params) : params[i].key # e.key)
         IN  IF bad # {}
             THEN LET entry == params[CHOOSE i \in bad : \A j \in bad : i <= j]
                  IN  Throw(bb, ParameterEntryError(entry), ParameterEntryMessage(entry))
             ELSE Return([bb EXCEPT !.queryParameters =
                              [owner |-> "caller", entries |-> kept \o params]])

parameters(bb, params) ==
    IF Len(params) = 0
        THEN Throw(bb, "ValidationError", ParametersEmptyMessage)
    ELSE IF Len(params) > MAX_PARAMETERS
        THEN Throw(bb, "QueryLimitError", ParametersLimitMessage(Len(params)))
    ELSE LET bad == {i \in 1..Len(params) : ParameterEntryError(params[i]) # "none"}
         IN  IF bad # {}
             THEN LET entry == params[CHOOSE i \in bad : \A j \in bad : i <= j]
                  IN  Throw(bb, ParameterEntryError(entry), ParameterEntryMessage(entry))
             ELSE Return([bb EXCEPT !.queryParameters =
                              [owner |-> "caller", entries |-> params]])

(***************************************************************************)
(* GaqlBuilder: build()                                                    *)
(***************************************************************************)
\* a variant of validateRequiredClauses that looks at the source first
validateRequiredClauses_SourceFirst(bb) ==
    IF bb.fromResource = <<>> THEN "FROM"
    ELSE IF Len(bb.selectFields.items) = 0 THEN "SELECT"
    ELSE "none"

\* "none", or the clause the QueryBuildError names
validateRequiredClauses(bb) ==
    IF Len(bb.selectFields.items) = 0 THEN "SELECT"
    ELSE IF bb.fromResource = <<>> THEN "FROM"
    ELSE "none"

buildSelectClause(bb) ==
    <<"S","E","L","E","C","T"," ">> \o Join(bb.selectFields.items, <<",", " ">>)

buildFromClause(bb) == <<"F","R","O","M"," ">> \o bb.fromResource

\* a variant of buildWhereClause that joins the conditions with commas
buildWhereClause_CommaJoined(bb) ==
    IF Len(bb.whereConditions) = 0 THEN <<>>
    ELSE <<"W","H","E","R","E"," ">> \o Join(bb.whereConditions, <<",", " ">>)

buildWhereClause(bb) ==
    IF Len(bb.whereConditions) = 0 THEN <<>>
    ELSE <<"W","H","E","R","E"," ">> \o Join(bb.whereConditions, <<" ","A","N","D"," ">>)

buildGroupByClause(bb) ==
    IF Len(bb.groupByFields) = 0 THEN <<>>
    ELSE <<"G","R","O","U","P"," ","B","Y"," ">> \o Join(bb.groupByFields, <<",", " ">>)

buildOrderByClause(bb) ==
    IF Len(bb.orderByFields) = 0 THEN <<>>
    ELSE <<"O","R","D","E","R"," ","B","Y"," ">> \o
         Join([i \in 1..Len(bb.orderByFields) |->
                   bb.orderByFields[i].field \o <<" ">> \o bb.orderByFields[i].direction],
              <<",", " ">>)

\* a variant of buildLimitClause that leaves the limit out of the query
buildLimitClause_Omitted(bb) == <<>>

buildLimitClause(bb) ==
    IF bb.limitCount = <<>> THEN <<>>
    ELSE <<"L","I","M","I","T"," ">> \o NumberToString(bb.limitCount[1])

buildParametersClause(bb) ==
    LET paramEntries == bb.queryParameters.entries
    IN  IF Len(paramEntries) = 0 THEN <<>>
        ELSE <<"P","A","R","A","M","E","T","E","R","S"," ">> \o
             Join([i \in 1..Len(paramEntries) |->
                       paramEntries[i].key \o <<" ","="," ">>
                           \o formatParameterValue(paramEntries[i].value)],
                  <<",", " ">>)

\* the parts build() pushes, in the order it pushes them
BuildParts(bb) ==
    LET optional == << buildWhereClause(bb), buildGroupByClause(bb),
                       buildOrderByClause(bb), buildLimitClause(bb),
                       buildParametersClause(bb) >>
    IN  <<buildSelectClause(bb), buildFromClause(bb)>> \o
        SelectSeq(optional, LAMBDA clause : clause # <<>>)

\* a variant of validateQuerySize that refuses a query of MAX_QUERY_LENGTH
validateQuerySize_Exclusive(query) == Length(query) < MAX_QUERY_LENGTH

validateQuerySize(query) == Length(query) <= MAX_QUERY_LENGTH

\* build(): the error raised ("none" when it returns), the clause a
\* QueryBuildError names, the string returned and the message of the error
build(bb) ==
    LET missing == validateRequiredClauses(bb)
    IN  IF missing # "none"
        THEN [err |-> "QueryBuildError", names |-> missing, out |-> <<>>,
              msg |-> IF missing = "SELECT" THEN SelectRequiredMessage
                      ELSE FromRequiredMessage]
        ELSE LET query == Join(BuildParts(bb), <<" ">>)
             IN  IF ~validateQuerySize(query)
                 THEN [err |-> "QueryLimitError", names |-> "none", out |-> <<>>,
                       msg |-> QueryLengthMessage(Length(query))]
                 ELSE [err |-> "none", names |-> "none", out |-> query, msg |-> <<>>]

(***************************************************************************)
(* Bounds of the model                                                     *)
(***************************************************************************)
\* fluent calls (and changes to a passed-in object) one caller makes
MaxCalls == 2
\* the same, for a caller whose calls carry a probe
MaxProbeCalls == 1
\* length of the strings drawn as probes
MaxProbeLen == 3

(***************************************************************************)
(* The caller: the arguments it passes                                     *)
(***************************************************************************)
NoProbe == [kind |-> "none", s |-> <<>>, n |-> 0, v |-> NullVal]

fA      == <<"a">>
fAB     == <<"a", ".", "b">>
fSum    == <<"S","U","M","(","a",")">>
fPadded == <<" ", "a", " ">>
fInject == <<"a", ";">>

vQuoted == StrVal(<<"o", Q, "k">>)

\* n copies of x
Repeat(x, n) == [i \in 1..n |-> x]

FieldInputs ==
    IF probe.kind \in {"field", "size", "defects"} THEN {probe.s}
    ELSE IF probe.kind = "none" THEN {fA, fPadded, fInject}
    ELSE IF probe.kind = "ceiling" THEN {fA, fInject}
    ELSE IF probe.kind = "text" THEN {fA, probe.s}
    ELSE {fA}

OperatorInputs ==
    IF probe.kind = "none" THEN { <<"=">>, <<"=", "=">> }
    ELSE IF probe.kind = "defects" /\ ~probe.v.bo THEN { <<"=", "=">> }
    ELSE { <<"=">> }

ValueInputs ==
    IF probe.kind = "value" THEN {probe.v}
    ELSE IF probe.kind \in {"length", "text"} THEN {StrVal(probe.s)}
    ELSE IF probe.kind = "none" THEN {vQuoted, NumVal(1), BoolVal(TRUE), NullVal}
    ELSE {NumVal(1)}

\* value lists: empty, mixed, or as long as the probe says
ValuesInputs ==
    IF probe.kind = "size" THEN {Repeat(NumVal(1), probe.n)}
    ELSE IF probe.kind = "value" THEN { <<NumVal(1), probe.v>> }
    ELSE IF probe.kind = "text" THEN { <<StrVal(probe.s), NumVal(1), StrVal(probe.s)>> }
    ELSE IF probe.kind = "none" THEN { <<>>, <<vQuoted, BoolVal(FALSE)>> }
    ELSE { <<NumVal(1)>> }

BoundsInputs ==
    IF probe.kind = "value" THEN { <<probe.v, probe.v>> }
    ELSE IF probe.kind = "text" THEN { <<StrVal(probe.s), StrVal(probe.s)>> }
    ELSE IF probe.kind = "none" THEN { <<NumVal(1), NumVal(25)>>, <<vQuoted, NullVal>> }
    ELSE { <<NumVal(1), NumVal(25)>> }

pSafe     == <<"%", "o", Q, "k">>
pStarStar == <<".", "*", ".", "*">>

PatternInputs ==
    IF probe.kind \in {"pattern", "text"} THEN {probe.s}
    ELSE IF probe.kind = "size" THEN {Repeat("a", probe.n)}
    ELSE IF probe.kind = "none" THEN {pSafe, pStarStar}
    ELSE IF probe.kind = "defects" /\ ~probe.v.bo THEN {pStarStar}
    ELSE {pSafe}

dToday   == <<"T","O","D","A","Y">>
dLeap    == <<"2","0","2","4","-","0","2","-","2","9">>
dNotLeap == <<"2","0","2","3","-","0","2","-","2","9">>

DateInputs ==
    IF probe.kind \in {"date", "text"} THEN {probe.s}
    ELSE IF probe.kind = "none" THEN {dToday, dLeap, dNotLeap, <<"t","o","d","a","y">>}
    ELSE {dToday}

FieldListInputs ==
    IF probe.kind = "field" THEN { <<probe.s>>, <<fA, probe.s>> }
    ELSE IF probe.kind = "keys" THEN { <<fA>>, <<fPadded, fSum>> }
    ELSE IF probe.kind \in {"size", "defects"} THEN {Repeat(probe.s, probe.n)}
    ELSE IF probe.kind = "none"
         THEN { <<>>, <<fA>>, <<fPadded, fSum>>, <<fAB, fInject, fA>> }
    ELSE { <<fA>> }

ResourceInputs ==
    IF probe.kind = "resource" THEN {probe.s}
    ELSE IF probe.kind = "none"
    THEN { <<"c">>, <<" ", "d", " ">>, <<"c", ".", "d">>, <<" ">> }
    ELSE IF probe.kind = "keys" THEN { <<"c">>, <<" ", "d", " ">> }
    ELSE { <<"c">> }

DirectionInputs ==
    IF probe.kind = "none" THEN { <<"A","S","C">>, <<"D","E","S","C">>, <<"a","s","c">> }
    ELSE IF probe.kind = "keys" THEN { <<"D","E","S","C">>, undefined }
    ELSE IF probe.kind = "defects" /\ ~probe.v.bo THEN { <<"a","s","c">> }
    ELSE { <<"A","S","C">> }

CountInputs ==
    IF probe.kind = "none" THEN {0, 1, 25}
    ELSE IF probe.kind = "keys" THEN {1, 25}
    ELSE {25}

Entry(k, v) == [key |-> k, value |-> v]

pIncludeDrafts == Entry(<<"p">>, BoolVal(TRUE))
pPageSize      == Entry(<<"q">>, NumVal(25))
pBadName       == Entry(<<"p", " ", "q">>, BoolVal(TRUE))
pTextValue     == Entry(<<"p">>, StrVal(<<"x", ";">>))
pOmitUnselected == Entry(<<"r">>, BoolVal(FALSE))

\* n entries with distinct valid names: k0, k1, ...
ManyEntries(n) == [i \in 1..n |-> Entry(<<"k">> \o NatToStr(i - 1), BoolVal(TRUE))]

ParamsInputs ==
    IF probe.kind = "none"
    THEN { <<>>, <<pIncludeDrafts>>, <<pPageSize, pIncludeDrafts>>,
           <<pIncludeDrafts, pBadName>>, <<pTextValue>> }
    ELSE IF probe.kind = "size" THEN {ManyEntries(probe.n)}
    ELSE IF probe.kind = "entry"
    THEN { <<>>, <<Entry(probe.s, probe.v)>>,
           <<pIncludeDrafts, Entry(probe.s, probe.v)>>,
           <<Entry(probe.s, probe.v), pTextValue>> }
    ELSE IF probe.kind = "keys"
    THEN { <<pIncludeDrafts>>, <<pPageSize, pIncludeDrafts>>, <<pOmitUnselected>> }
    ELSE { <<pIncludeDrafts>> }

\* what the caller may turn an object it still holds into: a value changed
\* to a string, a key added, more keys than MAX_PARAMETERS
MutatedParams ==
    { <<pTextValue>>, <<pIncludeDrafts, pPageSize>>, ManyEntries(MAX_PARAMETERS + 1) }

(***************************************************************************)
(* The caller: one action per operation                                    *)
(***************************************************************************)
Budget == IF probe.kind \in {"none", "ceiling", "keys"} THEN MaxCalls ELSE MaxProbeCalls

\* a fluent call named op that gave r
Fluent(op, r) ==
    /\ calls < Budget
    /\ b' = r.b
    /\ last' = [op |-> op, err |-> r.err, names |-> "none", out |-> <<>>, msg |-> r.msg]
    /\ calls' = calls + 1
    /\ UNCHANGED <<probe, twin, pending>>

Select == \E fields \in FieldListInputs : Fluent("select", select(b, fields))

From == \E resource \in ResourceInputs : Fluent("from", from(b, resource))

Where ==
    \E field \in FieldInputs, operator \in OperatorInputs, value \in ValueInputs :
        Fluent("where", where(b, field, operator, value))

AndWhere ==
    \E field \in FieldInputs, operator \in OperatorInputs, value \in ValueInputs :
        Fluent("andWhere", andWhere(b, field, operator, value))

WhereIn ==
    \E field \in FieldInputs, values \in ValuesInputs :
        Fluent("whereIn", whereIn(b, field, values))

WhereNotIn ==
    \E field \in FieldInputs, values \in ValuesInputs :
        Fluent("whereNotIn", whereNotIn(b, field, values))

WhereLike ==
    \E field \in FieldInputs, pattern \in PatternInputs :
        Fluent("whereLike", whereLike(b, field, pattern))

WhereNotLike ==
    \E field \in FieldInputs, pattern \in PatternInputs :
        Fluent("whereNotLike", whereNotLike(b, field, pattern))

WhereNull == \E field \in FieldInputs : Fluent("whereNull", whereNull(b, field))

WhereNotNull == \E field \in FieldInputs : Fluent("whereNotNull", whereNotNull(b, field))

WhereBetween ==
    \E field \in FieldInputs, bounds \in BoundsInputs :
        Fluent("whereBetween", whereBetween(b, field, bounds[1], bounds[2]))

WhereContainsAll ==
    \E field \in FieldInputs, values \in ValuesInputs :
        Fluent("whereContainsAll", whereContainsAll(b, field, values))

WhereContainsAny ==
    \E field \in FieldInputs, values \in ValuesInputs :
        Fluent("whereContainsAny", whereContainsAny(b, field, values))

WhereContainsNone ==
    \E field \in FieldInputs, values \in ValuesInputs :
        Fluent("whereContainsNone", whereContainsNone(b, field, values))

WhereDuring ==
    \E field \in FieldInputs, dateRange \in DateInputs :
        Fluent("whereDuring", whereDuring(b, field, dateRange))

WhereRegexpMatch ==
    \E field \in FieldInputs, pattern \in PatternInputs :
        Fluent("whereRegexpMatch", whereRegexpMatch(b, field, pattern))

WhereNotRegexpMatch ==
    \E field \in FieldInputs, pattern \in PatternInputs :
        Fluent("whereNotRegexpMatch", whereNotRegexpMatch(b, field, pattern))

GroupBy == \E fields \in FieldListInputs : Fluent("groupBy", groupBy(b, fields))

OrderBy ==
    \E field \in FieldInputs, direction \in DirectionInputs :
        Fluent("orderBy", orderBy(b, field, direction))

Limit == \E count \in CountInputs : Fluent("limit", limit(b, count))

Parameters == \E params \in ParamsInputs : Fluent("parameters", parameters(b, params))

\* build() reads the builder and writes nothing
Build ==
    LET r == build(b)
    IN  /\ b' = b
        /\ last' = [op |-> "build", err |-> r.err, names |-> r.names, out |-> r.out,
                    msg |-> r.msg]
        /\ UNCHANGED <<calls, probe, twin, pending>>

\* the fields of the builder that point to an object the caller holds
CallerHeld(bb) ==
    {f \in {"selectFields", "queryParameters"} : bb[f].owner = "caller"}

\* the caller changes an object it passed to the builder earlier (not a call
\* on the builder: it uses none of the budget, and MutatedParams is finite)
CallerMutates ==
    /\ \E f \in CallerHeld(b) : \E entries \in MutatedParams :
          b' = IF f = "queryParameters"
               THEN [b EXCEPT !.queryParameters.entries = entries]
               ELSE [b EXCEPT !.selectFields.items =
                         [i \in 1..Len(entries) |-> entries[i].key]]
    /\ last' = [op |-> "callerMutates", err |-> "none", names |-> "none", out |-> <<>>, msg |-> <<>>]
    /\ UNCHANGED <<calls, probe, twin, pending>>

Next ==
    \/ Select \/ From \/ Where \/ AndWhere \/ WhereIn \/ WhereNotIn
    \/ WhereLike \/ WhereNotLike \/ WhereNull \/ WhereNotNull \/ WhereBetween
    \/ WhereContainsAll \/ WhereContainsAny \/ WhereContainsNone \/ WhereDuring
    \/ WhereRegexpMatch \/ WhereNotRegexpMatch \/ GroupBy \/ OrderBy \/ Limit
    \/ Parameters \/ Build \/ CallerMutates

NoCall == [op |-> "new", err |-> "none", names |-> "none", out |-> <<>>, msg |-> <<>>]

Clauses == {"select", "from", "where", "groupBy", "orderBy", "limit", "parameters"}

NoTwin == [b |-> NewBuilder, reordered |-> FALSE]
NoPending == [cl \in Clauses |-> <<>>]

\* new GaqlBuilder()
Init ==
    /\ b = NewBuilder
    /\ last = NoCall
    /\ calls = 0
    /\ probe = NoProbe
    /\ twin = NoTwin
    /\ pending = NoPending

Spec == Init /\ [][Next]_vars

(***************************************************************************)
(* A caller near the condition ceiling: the builder of the limits test     *)
(* after select, from and all but one round of its loop of where() calls   *)
(***************************************************************************)
RECURSIVE WhereTimes(_, _)
\* for (i = 0; i < n; i++) builder.where('a', '=', 1)
\* (by halves: the first half of the rounds is finished before the second
\* half starts from the builder it left)
WhereTimes(bb, n) ==
    IF n = 0 THEN bb
    ELSE IF n = 1 THEN where(bb, fA, <<"=">>, NumVal(1)).b
    ELSE CHOOSE after \in {WhereTimes(mid, n - (n \div 2)) :
                               mid \in {WhereTimes(bb, n \div 2)}} : TRUE

\* a caller that starts one condition short of the ceiling and keeps to a
\* few arguments
CeilingProbe == [kind |-> "ceiling", s |-> <<>>, n |-> 0, v |-> NullVal]

NearCeilingBuilder ==
    WhereTimes(from(select(NewBuilder, <<fA>>).b, <<"c">>).b, MAX_WHERE_CONDITIONS - 1)

InitCeiling ==
    /\ b = NearCeilingBuilder
    /\ last = [NoCall EXCEPT !.op = "where"]
    /\ calls = 0
    /\ probe = CeilingProbe
    /\ twin = NoTwin
    /\ pending = NoPending

SpecCeiling == InitCeiling /\ [][Next]_vars

(***************************************************************************)
(* Callers whose calls carry a probe: a field, a string value, a pattern,  *)
(* or the size of a list or pattern                                        *)
(***************************************************************************)
\* every string of at most n characters of the alphabet
StringsUpTo(alphabet, n) == UNION {[1..k -> alphabet] : k \in 0..n}

FieldProbe(s)   == [kind |-> "field",   s |-> s,    n |-> 0, v |-> NullVal]
ValueProbe(v)   == [kind |-> "value",   s |-> <<>>, n |-> 0, v |-> v]
PatternProbe(s) == [kind |-> "pattern", s |-> s,    n |-> 0, v |-> NullVal]
\* a caller whose lists, maps and patterns have n elements, and whose field
\* is s
SizeProbe(n, s) == [kind |-> "size",    s |-> s,    n |-> n, v |-> NullVal]

FieldProbes ==
    StringsUpTo({"a", ".", " "}, MaxProbeLen) \cup
    { fSum, fAB, fInject,
      <<"1", "a">>, <<"a", "1">>, <<"_">>, <<"a", Q>>, <<"a", "\t">>,
      <<"S","U","M","(","a">>, <<"S","U","M","(",")">>, <<"S","U","M","(","1",")">>,
      <<"s","u","m","(","a",")">>, <<"S","U","M"," ","(","a",")">>,
      <<" ","S","U","M","(","a",")">>, <<"S","U","M","(","a",",","a",")">>,
      <<"M","A","X","(","a",".","b",")">>,
      <<"C","O","U","N","T","_","D","I","S","T","I","N","C","T","(","a",")">>,
      <<"S","U","M","(","M","A","X","(","a",")",")">> }

ValueProbes ==
    {StrVal(s) : s \in StringsUpTo({"a", Q, "\\"}, MaxProbeLen)} \cup
    {BoolVal(TRUE), BoolVal(FALSE), NullVal}

PatternProbes ==
    { pSafe, pStarStar, <<".", "+", ".", "+">>,
      <<"(", "a", "+", ")", "{", "1", "0", "0", "0", ",", "}">>,
      <<"(", "a", "+", ")", "{", "1", "0", "0", ",", "}">>,
      <<"(", ".", "*", ")", "{", "1", "0", "0", "0", "}">>,
      <<"(", "a", ")", "{", "1", ",", "1", "0", "0", "0", "}">>,
      <<"(", "a", ")", "{", "1", "0", "0", "0", ",", "2", "0", "0", "0", "}">>,
      <<"(", "a", ")", "{", "3", ",", "}">>, <<"(", "a", ")", "{", "9", "9", "}">>,
      <<"a", "{", "1", "0", "0", "0", "}">>,
      <<"(", "?", "i", ")", ".", "*", "b", ".", "*">>,
      <<"[", "a", "-", "z", "_", "-", "]", "+">>,
      <<"(", ".", "*", "|", ".", "*", ")">>,
      Repeat("a", MAX_REGEX_LENGTH), Repeat("a", MAX_REGEX_LENGTH + 1),
      Repeat("(", MAX_REGEX_COMPLEXITY + 1) \o Repeat(")", MAX_REGEX_COMPLEXITY + 1),
      Repeat("(", MAX_REGEX_COMPLEXITY) \o Repeat(")", MAX_REGEX_COMPLEXITY),
      <<")">> \o Repeat("(", MAX_REGEX_COMPLEXITY + 1),
      <<"(", ")">> \o Repeat("(", MAX_REGEX_COMPLEXITY),
      Repeat("(", MAX_REGEX_COMPLEXITY) \o Repeat("a", MAX_REGEX_LENGTH - MAX_REGEX_COMPLEXITY),
      Repeat("(", MAX_REGEX_COMPLEXITY) \o Repeat("a", MAX_REGEX_LENGTH + 1 - MAX_REGEX_COMPLEXITY) }

SizeProbes ==
    {SizeProbe(n, fA) : n \in {0, MAX_PARAMETERS, MAX_PARAMETERS + 1,
                               MAX_SELECT_FIELDS, MAX_SELECT_FIELDS + 1,
                               MAX_ARRAY_VALUES, MAX_ARRAY_VALUES + 1}}
    \cup {SizeProbe(0, fInject)}

\* new GaqlBuilder().select(['a.b']).from('c')
StartedBuilder == from(select(NewBuilder, <<fAB>>).b, <<"c">>).b

InitProbe(probes) ==
    /\ b = NewBuilder
    /\ last = NoCall
    /\ calls = 0
    /\ probe \in probes
    /\ twin = NoTwin
    /\ pending = NoPending

InitField   == InitProbe({FieldProbe(s) : s \in FieldProbes})
InitValue   == InitProbe({ValueProbe(v) : v \in ValueProbes})
InitPattern == InitProbe({PatternProbe(s) : s \in PatternProbes})
InitSize ==
    /\ b = StartedBuilder
    /\ last = NoCall
    /\ calls = 0
    /\ probe \in SizeProbes
    /\ twin = NoTwin
    /\ pending = NoPending

\* a caller whose parameter maps hold the entry s: v, alone, after the valid
\* entry p: true, and before the entry p: 'x;'
EntryProbe(s, v) == [kind |-> "entry", s |-> s, n |-> 0, v |-> v]

EntryKeys ==
    { <<"k">>, <<"_", "k", "1">>, <<"K">>, <<"1", "k">>, <<"k", " ">>,
      <<"k", ".", "k">>, <<"k", "-">>, <<>> }

EntryValues ==
    { BoolVal(TRUE), BoolVal(FALSE), NumVal(0), NumVal(25), NumVal(-3),
      TenTo(20), TenTo(21), TenTo(-6), TenTo(-7),
      NaN, Infinity, NegInfinity, StrVal(<<"x">>), NullVal }

\* new GaqlBuilder().select(['a.b']).from('c').parameters({r: false})
ParameterisedBuilder == parameters(StartedBuilder, <<pOmitUnselected>>).b

InitEntry ==
    /\ b = ParameterisedBuilder
    /\ last = NoCall
    /\ calls = 0
    /\ probe \in {EntryProbe(s, v) : s \in EntryKeys, v \in EntryValues}
    /\ twin = NoTwin
    /\ pending = NoPending

SpecEntry   == InitEntry /\ [][Next]_vars
\* a caller whose resource name is s
ResourceProbe(s) == [kind |-> "resource", s |-> s, n |-> 0, v |-> NullVal]

ResourceProbes ==
    StringsUpTo({"a", ".", " "}, MaxProbeLen) \cup
    { <<"c", ".", "d">>, <<"a", ";">>, <<"1", "a">>, <<"a", "1">>, <<"_">>, <<"A", "_", "9">>,
      <<"\t", "a", "\n">>, <<"a", "\t", "a">>, <<"a", "-">>, <<"a", Q>>,
      <<" ", "c", ".", "d", " ">> }

InitResource ==
    /\ b = StartedBuilder
    /\ last = NoCall
    /\ calls = 0
    /\ probe \in {ResourceProbe(s) : s \in ResourceProbes}
    /\ twin = NoTwin
    /\ pending = NoPending

SpecResource == InitResource /\ [][Next]_vars
\* a caller whose date range is s
DateProbe(s) == [kind |-> "date", s |-> s, n |-> 0, v |-> NullVal]

DateYears  == { <<"0","0","0","0">>, <<"0","0","9","9">>, <<"0","1","0","0">>, <<"1","9","0","0">>,
                <<"2","0","0","0">>, <<"2","0","2","3">>, <<"2","0","2","4">>, <<"9","9","9","9">> }
DateMonths == { <<"0","0">>, <<"0","1">>, <<"0","2">>, <<"0","4">>, <<"1","2">>, <<"1","3">> }
DateDays   == { <<"0","0">>, <<"0","1">>, <<"2","8">>, <<"2","9">>, <<"3","0">>, <<"3","1">>, <<"3","2">> }

DateProbes ==
    {y \o <<"-">> \o m \o <<"-">> \o d : y \in DateYears, m \in DateMonths, d \in DateDays}
    \cup VALID_DATE_RANGES
    \cup { <<"t","o","d","a","y">>, <<>>, <<"2","0","2","4","/","0","1","/","1","5">>,
           <<"2","0","2","4","-","1","-","1","5">>, <<"2","4","-","0","1","-","1","5">>,
           <<"2","0","2","4","-","X","X","-","1","5">>,
           <<"2","0","2","4","-","0","1","-","1","5"," ">>,
           <<"T","O","D","A","Y"," ">> }

InitDate    == InitProbe({DateProbe(s) : s \in DateProbes})
SpecDate    == InitDate /\ [][Next]_vars
SpecField   == InitField /\ [][Next]_vars
SpecValue   == InitValue /\ [][Next]_vars
SpecPattern == InitPattern /\ [][Next]_vars
SpecSize    == InitSize /\ [][Next]_vars

(***************************************************************************)
(* Properties                                                              *)
(***************************************************************************)
FluentOps ==
    {"select", "from", "where", "andWhere", "whereIn", "whereNotIn", "whereLike",
     "whereNotLike", "whereNull", "whereNotNull", "whereBetween", "whereContainsAll",
     "whereContainsAny", "whereContainsNone", "whereDuring", "whereRegexpMatch",
     "whereNotRegexpMatch", "groupBy", "orderBy", "limit", "parameters"}

\* the step is a fluent call (of any outcome)
FluentStep == calls' = calls + 1

\* the number of places of s where sub occurs
CountOf(s, sub) ==
    Cardinality({i \in 1..(Len(s) - Len(sub) + 1) : SubSeq(s, i, i + Len(sub) - 1) = sub})

\* C1: a fluent call that raises an error leaves all seven state components
\* as they were before the call; a groupBy whose later element is invalid
\* appends none of the earlier elements.
C1_FailedCallLeavesState ==
    [][(FluentStep /\ last'.op \in FluentOps /\ last'.err # "none") => b' = b]_vars

\* C3: whatever mix of condition-adding operations is used, the number of
\* accumulated conditions never exceeds 100.
C3_ConditionsWithinCeiling == Len(b.whereConditions) <= MAX_WHERE_CONDITIONS

\* C4: at exactly 100 conditions a further where() or andWhere() raises
\* QueryLimitError and leaves the conditions unchanged; the 100th where() is
\* not refused for the ceiling, and build() then renders all 100 conjuncts.
C4_WhereCeiling ==
    [][/\ (FluentStep /\ last'.op \in {"where", "andWhere"}) =>
            /\ Len(b.whereConditions) = MAX_WHERE_CONDITIONS =>
                    (last'.err = "QueryLimitError" /\ b' = b)
            /\ Len(b.whereConditions) = MAX_WHERE_CONDITIONS - 1 =>
                    /\ last'.err # "QueryLimitError"
                    /\ last'.err = "none" =>
                            Len(b'.whereConditions) = MAX_WHERE_CONDITIONS
       /\ (/\ last'.op = "build"
           /\ last'.err = "none"
           /\ Len(b.whereConditions) = MAX_WHERE_CONDITIONS
           /\ \A i \in 1..Len(b.whereConditions) :
                  ~Contains(b.whereConditions[i], <<" ", "A", "N", "D", " ">>)) =>
               CountOf(last'.out, <<" ", "A", "N", "D", " ">>) = MAX_WHERE_CONDITIONS - 1
      ]_vars

C4_Witness ==
    /\ last.op \in {"where", "andWhere"}
    /\ last.err = "QueryLimitError"
    /\ Len(b.whereConditions) = MAX_WHERE_CONDITIONS

ArrayOps ==
    {"whereIn", "whereNotIn", "whereContainsAll", "whereContainsAny", "whereContainsNone"}

PatternOps == {"whereLike", "whereNotLike", "whereRegexpMatch", "whereNotRegexpMatch"}

\* C5: each array-valued condition operation accepts a list of exactly 1000
\* values and rejects a list of 1001 or more with QueryLimitError, appending
\* no condition.
C5_ArrayCeiling ==
    [][(/\ FluentStep
        /\ probe.kind = "size"
        /\ probe.n >= 1
        /\ probe.s = fA
        /\ last'.op \in ArrayOps) =>
           IF probe.n <= MAX_ARRAY_VALUES
           THEN last'.err = "none"
           ELSE last'.err = "QueryLimitError" /\ b' = b
      ]_vars

\* C6: a whereLike, whereNotLike, whereRegexpMatch or whereNotRegexpMatch
\* call whose pattern the safety checker rejects raises SecurityError and
\* appends no condition.
C6_PatternsAreChecked ==
    [][(/\ FluentStep
        /\ probe.kind = "pattern"
        /\ last'.op \in PatternOps
        /\ ~isSafeRegexPattern(probe.s)) =>
           (last'.err = "SecurityError" /\ b' = b)
      ]_vars

\* C7: a change the caller makes to an object it passed to the builder
\* earlier does not change what build() returns.
C7_CallerCannotChangeBuild ==
    [][last'.op = "callerMutates" => build(b') = build(b)]_vars

\* C8: build() raises QueryBuildError and returns no string exactly when no
\* field is selected or no source is set; the error names SELECT when no
\* field is selected (also when the source is missing too) and FROM when
\* only the source is missing.
C8_RequiredClauses ==
    last.op = "build" =>
        LET noField  == Len(b.selectFields.items) = 0
            noSource == Len(b.fromResource) = 0
        IN  /\ last.err = "QueryBuildError" <=> (noField \/ noSource)
            /\ last.err = "QueryBuildError" => last.out = <<>>
            /\ last.names = (IF noField THEN "SELECT"
                             ELSE IF noSource THEN "FROM" ELSE "none")

C8_Witness ==
    /\ last.op = "build"
    /\ last.err = "QueryBuildError"
    /\ last.names = "FROM"
    /\ Len(b.selectFields.items) > 0

\* s with every single quote written twice
RECURSIVE Doubled(_)
Doubled(s) ==
    IF s = <<>> THEN <<>>
    ELSE (IF Head(s) = Q THEN <<Q, Q>> ELSE <<Head(s)>>) \o Doubled(Tail(s))

\* s with every pair of single quotes, read from the left, written once
RECURSIVE Undouble(_)
Undouble(s) ==
    IF s = <<>> THEN <<>>
    ELSE IF Len(s) >= 2 /\ s[1] = Q /\ s[2] = Q THEN <<Q>> \o Undouble(SubSeq(s, 3, Len(s)))
    ELSE <<Head(s)>> \o Undouble(Tail(s))

\* a literal without its enclosing quotes, un-doubled
Unquote(lit) == Undouble(SubSeq(lit, 2, Len(lit) - 1))

QuoteCount(s) == Cardinality({i \in 1..Len(s) : s[i] = Q})

\* the literal the specification gives for a string, a boolean or null
ExpectedLiteral(v) ==
    CASE v.t = "string"  -> <<Q>> \o Doubled(v.s) \o <<Q>>
      [] v.t = "boolean" -> (IF v.bo THEN <<"T","R","U","E">> ELSE <<"F","A","L","S","E">>)
      [] v.t = "null"    -> <<"N","U","L","L">>

ArrayKeyword(op) ==
    CASE op = "whereIn"           -> <<"I","N">>
      [] op = "whereNotIn"        -> <<"N","O","T"," ","I","N">>
      [] op = "whereContainsAll"  -> <<"C","O","N","T","A","I","N","S"," ","A","L","L">>
      [] op = "whereContainsAny"  -> <<"C","O","N","T","A","I","N","S"," ","A","N","Y">>
      [] op = "whereContainsNone" -> <<"C","O","N","T","A","I","N","S"," ","N","O","N","E">>

\* the condition the last call appended
LastCondition == b.whereConditions[Len(b.whereConditions)]

\* C9: the literal of a string value v inside a condition is a quote, v with
\* every quote doubled, and a quote, and un-quoting it gives back v; this
\* holds for the value of where, for each element of whereIn, whereNotIn and
\* whereContainsAll/Any/None, and for both bounds of whereBetween; booleans
\* render as TRUE/FALSE and null as NULL.
C9_LiteralRoundTrip ==
    (/\ probe.kind = "value"
     /\ last.err = "none"
     /\ last.op \in {"where", "andWhere", "whereBetween"} \cup ArrayOps) =>
        LET lit == ExpectedLiteral(probe.v)
        IN  /\ probe.v.t = "string" =>
                   /\ Unquote(lit) = probe.v.s
                   /\ Len(lit) = Len(probe.v.s) + QuoteCount(probe.v.s) + 2
            /\ last.op \in {"where", "andWhere"} =>
                   LastCondition = <<"a", " ", "=", " ">> \o lit
            /\ last.op \in ArrayOps =>
                   LastCondition = <<"a", " ">> \o ArrayKeyword(last.op)
                                       \o <<" ", "(", "1", ",", " ">> \o lit \o <<")">>
            /\ last.op = "whereBetween" =>
                   LastCondition = <<"a", " ", "B","E","T","W","E","E","N", " ">> \o lit
                                       \o <<" ", "A","N","D", " ">> \o lit

C9_Witness ==
    /\ probe.kind = "value"
    /\ probe.v.t = "string"
    /\ QuoteCount(probe.v.s) >= 2
    /\ last.op = "whereBetween"
    /\ last.err = "none"
    /\ Len(b.whereConditions) = 1

\* [A-Za-z_][A-Za-z0-9_]*(\.[A-Za-z_][A-Za-z0-9_]*)* read as an automaton:
\* "start" before the first character, "dot" after a dot, "id" inside an
\* identifier, "bad" once the string has left the grammar
GrammarStep(state, char) ==
    IF state \in {"start", "dot"}
    THEN (IF char \in Lower \cup Upper \cup {"_"} THEN "id" ELSE "bad")
    ELSE IF state = "id"
    THEN (IF char \in Lower \cup Upper \cup Digit \cup {"_"} THEN "id"
          ELSE IF char = "." THEN "dot" ELSE "bad")
    ELSE "bad"

RECURSIVE GrammarRun(_, _, _)
GrammarRun(state, s, i) ==
    IF i > Len(s) THEN state ELSE GrammarRun(GrammarStep(state, s[i]), s, i + 1)

MatchesIdentifierGrammar(s) == GrammarRun("start", s, 1) = "id"

\* one of SUM, COUNT, AVG, MIN, MAX, COUNT_DISTINCT applied to one identifier
IsAggregateCall(s) ==
    \E fn \in { <<"S","U","M">>, <<"C","O","U","N","T">>, <<"A","V","G">>,
                <<"M","I","N">>, <<"M","A","X">>,
                <<"C","O","U","N","T","_","D","I","S","T","I","N","C","T">> } :
        /\ Len(s) >= Len(fn) + 3
        /\ \E id \in {SubSeq(s, Len(fn) + 2, Len(s) - 1)} :
               /\ s = fn \o <<"(">> \o id \o <<")">>
               /\ MatchesIdentifierGrammar(id)

AcceptableField(s) == MatchesIdentifierGrammar(s) \/ IsAggregateCall(s)

\* s without the white space at its two ends
RECURSIVE Stripped(_)
Stripped(s) ==
    IF s = <<>> THEN s
    ELSE IF Head(s) \in WhiteSpace THEN Stripped(Tail(s))
    ELSE IF s[Len(s)] \in WhiteSpace THEN Stripped(SubSeq(s, 1, Len(s) - 1))
    ELSE s

FieldOps ==
    {"select", "groupBy", "orderBy", "where", "andWhere", "whereLike", "whereNotLike",
     "whereNull", "whereNotNull", "whereBetween", "whereDuring", "whereRegexpMatch",
     "whereNotRegexpMatch"} \cup ArrayOps

MaxScript == 3

\* one fluent call with its arguments
Call(op, args) == [op |-> op, args |-> args]

\* b.op(...args)
Apply(bb, c) ==
    CASE c.op = "select"     -> select(bb, c.args[1])
      [] c.op = "from"       -> from(bb, c.args[1])
      [] c.op = "where"      -> where(bb, c.args[1], c.args[2], c.args[3])
      [] c.op = "whereIn"    -> whereIn(bb, c.args[1], c.args[2])
      [] c.op = "groupBy"    -> groupBy(bb, c.args[1])
      [] c.op = "orderBy"    -> orderBy(bb, c.args[1], c.args[2])
      [] c.op = "limit"      -> limit(bb, c.args[1])
      [] c.op = "parameters" -> parameters(bb, c.args[1])

\* the clause a call feeds
ClauseOf(c) == IF c.op \in {"where", "whereIn"} THEN "where" ELSE c.op

OrderCalls ==
    { Call("select", << <<fPadded, fSum>> >>),
      Call("from", << <<" ", "d", " ">> >>),
      Call("where", <<fA, <<"=">>, vQuoted>>),
      Call("whereIn", <<fAB, <<NumVal(1), NullVal>> >>),
      Call("groupBy", << <<fAB, fInject>> >>),
      Call("orderBy", <<fA, <<"A","S","C">> >>),
      Call("limit", <<1>>), Call("limit", <<25>>),
      Call("parameters", << <<pPageSize, pIncludeDrafts>> >>) }

\* the caller makes the call on b and notes it for the twin
Issue(c) ==
    /\ calls < MaxScript
    /\ LET r == Apply(b, c)
       IN  /\ b' = r.b
           /\ last' = [op |-> c.op, err |-> r.err, names |-> "none", out |-> <<>>, msg |-> r.msg]
    /\ calls' = calls + 1
    /\ pending' = [pending EXCEPT ![ClauseOf(c)] = Append(@, [call |-> c, at |-> calls])]
    /\ UNCHANGED <<probe, twin>>

\* the twin is given the oldest call of one clause it has not yet had; the
\* order differs from the caller's when an older call of another clause is
\* still waiting
Replay(clause) ==
    /\ pending[clause] # <<>>
    /\ LET next == Head(pending[clause])
           r    == Apply(twin.b, next.call)
           jump == \E other \in Clauses :
                       /\ pending[other] # <<>>
                       /\ Head(pending[other]).at < next.at
       IN  twin' = [b |-> r.b, reordered |-> twin.reordered \/ jump]
    /\ pending' = [pending EXCEPT ![clause] = Tail(@)]
    /\ UNCHANGED <<b, last, calls, probe>>

NextOrder ==
    \/ \E c \in OrderCalls : Issue(c)
    \/ \E clause \in Clauses : Replay(clause)

\* new GaqlBuilder().select(['a']).from('c')
SelectedBuilder == from(select(NewBuilder, <<fA>>).b, <<"c">>).b

\* both builders are new, or both have had the same select and from
InitOrder ==
    /\ \E start \in {NewBuilder, SelectedBuilder} :
           /\ b = start
           /\ twin = [b |-> start, reordered |-> FALSE]
    /\ last = NoCall
    /\ calls = 0
    /\ probe = NoProbe
    /\ pending = NoPending

SpecOrder == InitOrder /\ [][NextOrder]_vars

AllReplayed == \A clause \in Clauses : pending[clause] = <<>>

\* the places of s where sub occurs
Occurrences(s, sub) ==
    {i \in 1..(Len(s) - Len(sub) + 1) : SubSeq(s, i, i + Len(sub) - 1) = sub}

ClauseKeywords ==
    << <<"S","E","L","E","C","T"," ">>, <<" ","F","R","O","M"," ">>,
       <<" ","W","H","E","R","E"," ">>, <<" ","G","R","O","U","P"," ","B","Y"," ">>,
       <<" ","O","R","D","E","R"," ","B","Y"," ">>, <<" ","L","I","M","I","T"," ">>,
       <<" ","P","A","R","A","M","E","T","E","R","S"," ">> >>

\* the clauses of the query stand in the order of ClauseKeywords, each at
\* most once, and SELECT and FROM are there
InClauseOrder(query) ==
    LET at == [k \in 1..Len(ClauseKeywords) |-> Occurrences(query, ClauseKeywords[k])]
    IN  /\ at[1] = {1}
        /\ Cardinality(at[2]) = 1
        /\ \A k \in 1..Len(ClauseKeywords) : Cardinality(at[k]) <= 1
        /\ \A i, j \in 1..Len(ClauseKeywords) :
               i < j => \A x \in at[i] : \A y \in at[j] : x < y

C11_EmptyListRejected ==
    [][(/\ FluentStep
        /\ probe.kind = "size"
        /\ probe.n = 0
        /\ last'.op \in ArrayOps) =>
           (last'.err = "ValidationError" /\ b' = b)
      ]_vars

C11_Witness ==
    /\ probe.kind = "size"
    /\ probe.n = 0
    /\ probe.s = fInject
    /\ last.op = "whereContainsAll"
    /\ last.err = "ValidationError"
    /\ b.whereConditions = <<>>

(***************************************************************************)
(* A caller that starts one key short of the grouping and ordering         *)
(* ceilings and calls each setter with two different arguments             *)
(***************************************************************************)
KeysProbe == [kind |-> "keys", s |-> <<>>, n |-> 0, v |-> NullVal]

\* for (i = 0; i < n; i++) builder.orderBy('a.b', 'DESC')
RECURSIVE OrderByTimes(_, _)
OrderByTimes(bb, n) ==
    IF n = 0 THEN bb
    ELSE orderBy(OrderByTimes(bb, n - 1), fAB, <<"D","E","S","C">>).b

NearKeyCeilingsBuilder ==
    OrderByTimes(groupBy(StartedBuilder, Repeat(fAB, MAX_GROUP_BY_FIELDS - 1)).b,
                 MAX_ORDER_BY_FIELDS - 1)

InitKeys ==
    /\ b = NearKeyCeilingsBuilder
    /\ last = NoCall
    /\ calls = 0
    /\ probe = KeysProbe
    /\ twin = NoTwin
    /\ pending = NoPending

SpecKeys == InitKeys /\ [][Next]_vars

\* C12: the builder never holds more than 10 grouping keys or more than 10
\* ordering keys.
C12_KeysWithinCeilings ==
    /\ Len(b.groupByFields) <= MAX_GROUP_BY_FIELDS
    /\ Len(b.orderByFields) <= MAX_ORDER_BY_FIELDS

LengthProbe(s) == [kind |-> "length", s |-> s, n |-> 0, v |-> NullVal]

LengthProbes == {LengthProbe(<<run>>) : run \in Runs}

InitLength ==
    /\ b = StartedBuilder
    /\ last = NoCall
    /\ calls = 0
    /\ probe \in LengthProbes
    /\ twin = NoTwin
    /\ pending = NoPending

SpecLength == InitLength /\ [][Next]_vars

\* C14: build() returns the rendered string when it has at most 100,000
\* characters and raises QueryLimitError when it has more; where() with a
\* value that makes the query too long still succeeds, and the failing
\* build() leaves the builder unchanged.
C14_LengthCheckedAtBuild ==
    [][probe.kind = "length" =>
           /\ (FluentStep /\ last'.op \in {"where", "andWhere"}) =>
                  /\ last'.err = "none"
                  /\ Len(b'.whereConditions) = Len(b.whereConditions) + 1
           /\ last'.op = "build" =>
                  LET rendered == Join(BuildParts(b), <<" ">>)
                  IN  /\ b' = b
                      /\ IF Length(rendered) <= MAX_QUERY_LENGTH
                         THEN last'.err = "none" /\ last'.out = rendered
                         ELSE last'.err = "QueryLimitError" /\ last'.out = <<>>
      ]_vars

C14_Witness ==
    /\ probe = LengthProbe(<<RunAbove>>)
    /\ Len(b.whereConditions) = 1
    /\ last.op = "build"
    /\ last.err = "QueryLimitError"
    /\ Length(Join(BuildParts(b), <<" ">>)) = MAX_QUERY_LENGTH + 1

\* what build() gave back, as the caller's record of it
BuildOutcome(bb) ==
    [op |-> "build", err |-> build(bb).err, names |-> build(bb).names, out |-> build(bb).out,
     msg |-> build(bb).msg]

ConditionOps ==
    FluentOps \ {"select", "from", "groupBy", "orderBy", "limit", "parameters"}

\* parts[1] sep parts[2] sep ... parts[n], built from the left
RECURSIVE Chain(_, _)
Chain(parts, sep) ==
    IF Len(parts) = 0 THEN <<>>
    ELSE IF Len(parts) = 1 THEN parts[1]
    ELSE Chain(SubSeq(parts, 1, Len(parts) - 1), sep) \o sep \o parts[Len(parts)]

\* one "field direction" text per ordering key
OrderTexts ==
    [i \in 1..Len(b.orderByFields) |->
         b.orderByFields[i].field \o <<" ">> \o b.orderByFields[i].direction]

\* what a returned query holds for the three accumulating clauses
WhereText == <<" ","W","H","E","R","E"," ">> \o Chain(b.whereConditions, <<" ","A","N","D"," ">>)
GroupByText == <<" ","G","R","O","U","P"," ","B","Y"," ">> \o Chain(b.groupByFields, <<",", " ">>)
OrderByText == <<" ","O","R","D","E","R"," ","B","Y"," ">> \o Chain(OrderTexts, <<",", " ">>)

\* C16: conditions, grouping keys and ordering keys accumulate in call order.
\* A successful condition-adding call appends exactly one fragment and keeps the
\* earlier ones; a successful groupBy appends its trimmed fields and a
\* successful orderBy appends one key, ASC when no direction was given; every
\* other call leaves the conditions alone; a returned query holds the fragments
\* joined by ' AND ' and the keys joined by ', ' in that order, duplicates
\* included.
C16_ClausesAccumulateInOrder ==
    /\ []((last.op = "build" /\ last.err = "none") =>
             /\ Contains(last.out, WhereText) <=> Len(b.whereConditions) > 0
             /\ Contains(last.out, GroupByText) <=> Len(b.groupByFields) > 0
             /\ Contains(last.out, OrderByText) <=> Len(b.orderByFields) > 0
             /\ CountOf(last.out, <<" ","W","H","E","R","E"," ">>) <= 1)
    /\ [](\A field \in FieldInputs :
             orderBy(b, field, undefined).err = "none" =>
                 orderBy(b, field, undefined).b.orderByFields =
                     Append(b.orderByFields, [field |-> field, direction |-> <<"A","S","C">>]))
    /\ [][/\ (FluentStep /\ last'.err = "none" /\ last'.op \in ConditionOps) =>
                 /\ Len(b'.whereConditions) = Len(b.whereConditions) + 1
                 /\ SubSeq(b'.whereConditions, 1, Len(b.whereConditions)) = b.whereConditions
                 /\ b'.groupByFields = b.groupByFields
                 /\ b'.orderByFields = b.orderByFields
          /\ (FluentStep /\ last'.err = "none" /\ last'.op = "groupBy") =>
                 /\ \E fields \in FieldListInputs :
                        b'.groupByFields =
                            b.groupByFields \o [i \in 1..Len(fields) |-> Stripped(fields[i])]
                 /\ b'.whereConditions = b.whereConditions
                 /\ b'.orderByFields = b.orderByFields
          /\ (FluentStep /\ last'.err = "none" /\ last'.op = "orderBy") =>
                 /\ \E field \in FieldInputs, direction \in SORT_DIRECTIONS :
                        b'.orderByFields =
                            Append(b.orderByFields, [field |-> field, direction |-> direction])
                 /\ b'.whereConditions = b.whereConditions
                 /\ b'.groupByFields = b.groupByFields
          /\ (FluentStep /\ last'.op \notin ConditionOps) =>
                 b'.whereConditions = b.whereConditions
         ]_vars

\* two equal conditions were added by two calls to a builder that held nine
\* equal grouping keys and nine equal ordering keys, and a query was returned
\* that joins the conditions with ' AND ' and the keys with ', '
C16_Witness ==
    /\ last.op = "build"
    /\ last.err = "none"
    /\ calls = 2
    /\ Len(b.whereConditions) = 2
    /\ b.whereConditions[1] = b.whereConditions[2]
    /\ Contains(last.out, b.whereConditions[1] \o <<" ","A","N","D"," ">> \o b.whereConditions[2])
    /\ Len(b.groupByFields) = MAX_GROUP_BY_FIELDS - 1
    /\ Contains(last.out, <<"a",".","b"," ","D","E","S","C",","," ","a",".","b"," ","D","E","S","C">>)


\* the start of a returned query: the selected fields chained with ', ' and
\* the source
SelectFromText ==
    <<"S","E","L","E","C","T"," ">> \o Chain(b.selectFields.items, <<",", " ">>)
        \o <<" ","F","R","O","M"," ">> \o b.fromResource

\* the row limit as it stands in a returned query, with the blank before it
LimitText == <<" ","L","I","M","I","T"," ">> \o NumberToString(b.limitCount[1])

\* C17: from, limit and select replace. A successful call sets its field to
\* the value given (the trimmed source, the count, the trimmed field list)
\* whatever the field held before, and changes nothing else; a returned query
\* starts with the current field list and source, names one source, and holds
\* the current row limit once and no other.
C17_SettersReplace ==
    /\ []((last.op = "build" /\ last.err = "none") =>
             /\ SubSeq(last.out \o <<" ">>, 1, Len(SelectFromText) + 1) = SelectFromText \o <<" ">>
             /\ CountOf(last.out, <<" ","F","R","O","M"," ">>) = 1
             /\ CountOf(last.out, <<" ","L","I","M","I","T"," ">>) =
                    (IF b.limitCount = <<>> THEN 0 ELSE 1)
             /\ b.limitCount # <<>> => Contains(last.out \o <<" ">>, LimitText \o <<" ">>))
    /\ [][/\ (FluentStep /\ last'.err = "none" /\ last'.op = "select") =>
                 \E fields \in FieldListInputs :
                     b' = [b EXCEPT !.selectFields =
                               [owner |-> "builder",
                                items |-> [i \in 1..Len(fields) |-> Stripped(fields[i])]]]
          /\ (FluentStep /\ last'.err = "none" /\ last'.op = "from") =>
                 \E resource \in ResourceInputs :
                     b' = [b EXCEPT !.fromResource = Stripped(resource)]
          /\ (FluentStep /\ last'.err = "none" /\ last'.op = "limit") =>
                 \E count \in CountInputs : b' = [b EXCEPT !.limitCount = <<count>>]
         ]_vars

\* select(['a.b']).from('c') was followed by select([' a ', 'SUM(a)']) and
\* from(' d '), and the query returned names only the later fields and source
C17_Witness ==
    /\ last.op = "build"
    /\ last.err = "none"
    /\ calls = 2
    /\ b.selectFields.items = <<fA, fSum>>
    /\ b.fromResource = <<"d">>
    /\ SubSeq(last.out, 1, 23) =
           <<"S","E","L","E","C","T"," ","a",","," ","S","U","M","(","a",")"," ","F","R","O","M"," ","d">>
    /\ ~Contains(SubSeq(last.out, 1, 23), fAB)


\* the list select() is given under a size probe, each field trimmed
ProbedFields == [i \in 1..probe.n |-> Stripped(probe.s)]

\* C18 as stated: select accumulates; after select(f1) and select(f2) the
\* selected fields are those of f1 followed by those of f2, and their count
\* stays within 500.
C18_SelectAccumulates ==
    [][(FluentStep /\ last'.op = "select" /\ last'.err = "none") =>
           /\ b'.selectFields.items = b.selectFields.items \o ProbedFields
           /\ Len(b'.selectFields.items) <= MAX_SELECT_FIELDS
      ]_vars

\* C18 amended: select replaces; after select(f1) and select(f2) the selected
\* fields are exactly the trimmed fields of f2 in their order, equal ones
\* included, nothing of f1 remains, and since one call takes at most 500 fields
\* the count stays within 500.
C18_SelectReplaces ==
    /\ [](Len(b.selectFields.items) <= MAX_SELECT_FIELDS)
    /\ [][(FluentStep /\ last'.op = "select" /\ last'.err = "none") =>
              /\ b.selectFields.items # <<>>
              /\ b'.selectFields.items = ProbedFields
              /\ \A i \in 1..Len(b'.selectFields.items) :
                     b'.selectFields.items[i] \notin
                         {b.selectFields.items[j] : j \in 1..Len(b.selectFields.items)}
                         \ {Stripped(probe.s)}
         ]_vars

\* select(['a.b']) was followed by a select of 500 equal fields 'a', and the
\* builder holds those 500 and not 'a.b'
C18_Witness ==
    /\ last.op = "select"
    /\ last.err = "none"
    /\ probe.n = MAX_SELECT_FIELDS
    /\ Len(b.selectFields.items) = MAX_SELECT_FIELDS
    /\ \A i \in 1..Len(b.selectFields.items) : b.selectFields.items[i] = fA


\* the keys of a parameter list
KeysOf(entries) == {entries[i].key : i \in 1..Len(entries)}

\* one "key = value" text per entry of the stored parameters
ParameterTexts ==
    [i \in 1..Len(b.queryParameters.entries) |->
         b.queryParameters.entries[i].key \o <<" ","="," ">>
             \o formatParameterValue(b.queryParameters.entries[i].value)]

\* the end of a returned query when parameters are stored
ParametersText ==
    <<" ","P","A","R","A","M","E","T","E","R","S"," ">> \o Chain(ParameterTexts, <<",", " ">>)

\* the last n characters of s
Tail_(s, n) == SubSeq(s, Len(s) - n + 1, Len(s))

\* C19: a successful parameters(p2) replaces the whole map. The stored entries
\* are then exactly those of p2 in p2's order, a key that only the earlier map
\* held is gone, and nothing else of the builder changes; a returned query ends
\* with the stored entries in their order, names no parameter key that is not
\* stored, and has no PARAMETERS clause when nothing is stored.
C19_ParametersReplace ==
    /\ []((last.op = "build" /\ last.err = "none") =>
             /\ IF b.queryParameters.entries = <<>>
                THEN CountOf(last.out, <<" ","P","A","R","A","M","E","T","E","R","S"," ">>) = 0
                ELSE /\ Len(last.out) > Len(ParametersText)
                     /\ Tail_(last.out, Len(ParametersText)) = ParametersText
                     /\ CountOf(last.out, <<" ","P","A","R","A","M","E","T","E","R","S"," ">>) = 1
             /\ \A p \in ParamsInputs : \A key \in KeysOf(p) \ KeysOf(b.queryParameters.entries) :
                    ~Contains(last.out, key \o <<" ","="," ">>))
    /\ [][(FluentStep /\ last'.op = "parameters" /\ last'.err = "none") =>
              /\ b'.queryParameters.entries \in ParamsInputs
              /\ [b' EXCEPT !.queryParameters = b.queryParameters] = b
         ]_vars

\* parameters({q: 25, p: true}) was followed by parameters({r: false}), and the
\* query returned ends with the one entry of the later map
C19_Witness ==
    /\ last.op = "build"
    /\ last.err = "none"
    /\ calls = 2
    /\ b = [NearKeyCeilingsBuilder EXCEPT !.queryParameters = b.queryParameters]
    /\ b.queryParameters.entries = <<pOmitUnselected>>
    /\ Tail_(last.out, 21) =
           <<" ","P","A","R","A","M","E","T","E","R","S"," ","r"," ","="," ","f","a","l","s","e">>
    /\ ~Contains(last.out, <<"q"," ","=">>)


\* [A-Za-z_][A-Za-z0-9_]*
MatchesParameterGrammar(key) ==
    MatchesIdentifierGrammar(key) /\ \A i \in 1..Len(key) : key[i] # "."

BadKeys(p) == {i \in 1..Len(p) : ~MatchesParameterGrammar(p[i].key)}

BadValues(p) ==
    {i \in 1..Len(p) : \/ p[i].value.t \notin {"boolean", "number"}
                       \/ p[i].value \in {NaN, Infinity, NegInfinity}}

\* what parameters(p) gives on the current builder, for every map p the caller
\* has: success exactly for a non-empty map without a bad key or value,
\* ValidationError for the empty map or a bad key, SecurityError for a bad
\* value, and the builder as it was whenever it fails
ParametersErrorsAsStated ==
    \A p \in ParamsInputs :
        LET r == parameters(b, p)
        IN  /\ r.err = "none" <=> (p # <<>> /\ BadKeys(p) = {} /\ BadValues(p) = {})
            /\ r.err \in {"none", "ValidationError", "SecurityError"}
            /\ r.err = "ValidationError" => (p = <<>> \/ BadKeys(p) # {})
            /\ r.err = "SecurityError" => BadValues(p) # {}
            /\ r.err # "none" => r.b = b
            /\ r.err = "none" => r.b.queryParameters.entries = p

\* the text after the first occurrence of marker in s (<<>> when there is none)
After(s, marker) ==
    LET at == {i \in 1..(Len(s) - Len(marker) + 1) : SubSeq(s, i, i + Len(marker) - 1) = marker}
    IN  IF at = {} THEN <<>>
        ELSE SubSeq(s, (CHOOSE i \in at : \A j \in at : i <= j) + Len(marker), Len(s))

\* the text of s before its first comma
UntilComma(s) ==
    LET at == {i \in 1..Len(s) : s[i] = ","}
    IN  IF at = {} THEN s ELSE SubSeq(s, 1, (CHOOSE i \in at : \A j \in at : i <= j) - 1)

\* the value a returned query shows for the parameter key
RenderedValue(key) ==
    UntilComma(After(After(last.out, <<" ","P","A","R","A","M","E","T","E","R","S">>),
                     <<" ">> \o key \o <<" ","="," ">>))

\* -?[0-9]+(\.[0-9]+)?
IsDecimalNumeral(text) ==
    LET digits == IF Len(text) >= 1 /\ text[1] = "-" THEN Tail(text) ELSE text
        dots   == {i \in 1..Len(digits) : digits[i] = "."}
    IN  /\ Len(digits) >= 1
        /\ \A i \in 1..Len(digits) : digits[i] \in Digit \cup {"."}
        /\ Cardinality(dots) <= 1
        /\ \A i \in dots : 1 < i /\ i < Len(digits)

\* every boolean a returned query shows is true or false, as stored, and every
\* number is a decimal numeral
RenderedAsStated ==
    (last.op = "build" /\ last.err = "none") =>
        \A i \in 1..Len(b.queryParameters.entries) :
            LET entry == b.queryParameters.entries[i]
            IN  /\ entry.value.t = "boolean" =>
                       RenderedValue(entry.key) =
                           (IF entry.value.bo THEN <<"t","r","u","e">> ELSE <<"f","a","l","s","e">>)
                /\ entry.value.t = "number" => IsDecimalNumeral(RenderedValue(entry.key))
                /\ (entry.value.t = "number" /\ entry.value.s = <<>> /\ entry.value.n >= 0) =>
                       StrToNat(RenderedValue(entry.key)) = entry.value.n

\* C20: parameters(p) succeeds only for a non-empty map whose keys match
\* [A-Za-z_][A-Za-z0-9_]* and whose values are booleans or finite numbers; the
\* empty map or a bad key raises ValidationError, a value of another type or a
\* non-finite number raises SecurityError, a failing call leaves the stored
\* parameters as they were, and a returned query shows booleans as true or
\* false and numbers in decimal form.
C20_ParametersChecked ==
    /\ [](ParametersErrorsAsStated /\ RenderedAsStated)
    /\ [][(FluentStep /\ last'.op = "parameters") =>
              IF last'.err = "none"
              THEN /\ b'.queryParameters.entries \in ParamsInputs \ {<<>>}
                   /\ BadKeys(b'.queryParameters.entries) = {}
                   /\ BadValues(b'.queryParameters.entries) = {}
              ELSE b' = b
         ]_vars


(***************************************************************************)
(* Two builders used by one caller in any interleaving                     *)
(***************************************************************************)
\* a variant of This in which the fields belong to the class, not the instance
This_Static(who) == b

\* the private fields a method running on builder who reads and writes
This(who) == IF who = 1 THEN b ELSE twin.b

\* the caller addressed builder who last
PairProbe(who) == [kind |-> "pair", s |-> <<>>, n |-> who, v |-> NullVal]

\* the calls the caller makes on either builder; both may be given the same
\* parameters object
PairCalls ==
    { Call("select", << <<fA>> >>), Call("select", << <<fPadded, fSum>> >>),
      Call("from", << <<"c">> >>), Call("from", << <<" ", "d", " ">> >>),
      Call("where", <<fA, <<"=">>, vQuoted>>),
      Call("groupBy", << <<fAB, fInject>> >>),
      Call("orderBy", <<fA, undefined>>),
      Call("limit", <<25>>),
      Call("parameters", << <<pIncludeDrafts>> >>) }

\* builder who is given the call c; the caller notes it in the log of who
CallOn(who, c) ==
    /\ calls < MaxScript
    /\ LET r == Apply(This(who), c)
       IN  /\ IF who = 1 THEN b' = r.b /\ twin' = twin
                         ELSE twin' = [twin EXCEPT !.b = r.b] /\ b' = b
           /\ last' = [op |-> c.op, err |-> r.err, names |-> "none", out |-> <<>>, msg |-> r.msg]
    /\ calls' = calls + 1
    /\ probe' = PairProbe(who)
    /\ pending' = [pending EXCEPT ![who] = Append(@, c)]

\* builder who is asked for its query
BuildOn(who) ==
    /\ LET r == build(This(who))
       IN  last' = [op |-> "build", err |-> r.err, names |-> r.names, out |-> r.out,
                    msg |-> r.msg]
    /\ probe' = PairProbe(who)
    /\ UNCHANGED <<b, twin, calls, pending>>

NextPair ==
    \/ \E who \in {1, 2} : \E c \in PairCalls : CallOn(who, c)
    \/ \E who \in {1, 2} : BuildOn(who)

\* const one = new GaqlBuilder(); const two = new GaqlBuilder()
InitPair ==
    /\ b = NewBuilder
    /\ twin = [b |-> NewBuilder, reordered |-> FALSE]
    /\ last = NoCall
    /\ calls = 0
    /\ probe = PairProbe(1)
    /\ pending = <<    <<>>, <<>>    >>

SpecPair == InitPair /\ [][NextPair]_vars

\* a new builder given the calls of log alone, in their order
RECURSIVE Alone(_)
Alone(log) ==
    IF log = <<>> THEN NewBuilder
    ELSE Apply(Alone(SubSeq(log, 1, Len(log) - 1)), log[Len(log)]).b

C22_ResourceChecked ==
    [][(FluentStep /\ probe.kind = "resource" /\ last'.op = "from") =>
           IF Stripped(probe.s) # <<>> /\ MatchesParameterGrammar(Stripped(probe.s))
           THEN /\ last'.err = "none"
                /\ b' = [b EXCEPT !.fromResource = Stripped(probe.s)]
           ELSE /\ last'.err = "ValidationError"
                /\ b' = b
      ]_vars

\* from('a.a') was refused on a builder whose source is 'c'
C22_Witness ==
    /\ probe.kind = "resource"
    /\ probe.s = <<"a", ".", "a">>
    /\ last.op = "from"
    /\ last.err = "ValidationError"
    /\ b.fromResource = <<"c">>


\* the lengths of the months January to December of a common year
MonthLengths == <<31, 28, 31, 30, 31, 30, 31, 31, 30, 31, 30, 31>>

\* s has the form YYYY-MM-DD and names a day of the calendar
IsCalendarDate(s) ==
    /\ Len(s) = 10
    /\ s[5] = "-" /\ s[8] = "-"
    /\ \A i \in {1, 2, 3, 4, 6, 7, 9, 10} : s[i] \in Digit
    /\ LET year  == 1000 * DigitValue(s[1]) + 100 * DigitValue(s[2])
                        + 10 * DigitValue(s[3]) + DigitValue(s[4])
           month == 10 * DigitValue(s[6]) + DigitValue(s[7])
           day   == 10 * DigitValue(s[9]) + DigitValue(s[10])
           leap  == year % 4 = 0 /\ (year % 100 # 0 \/ year % 400 = 0)
       IN  /\ month \in 1..12
           /\ day >= 1
           /\ day <= (IF month = 2 /\ leap THEN 29 ELSE MonthLengths[month])

\* C23: isValidDateRange(s) is true exactly when s is one of the 11 relative
\* tokens or has the form YYYY-MM-DD and names a real calendar date, for every
\* year 0000 to 9999 (whereDuring on a valid field succeeds exactly then).
C23_DateRangeChecked ==
    /\ [](Cardinality(VALID_DATE_RANGES) = 11)
    /\ [][(FluentStep /\ probe.kind = "date" /\ last'.op = "whereDuring") =>
              (last'.err = "none" <=>
                   (probe.s \in VALID_DATE_RANGES \/ IsCalendarDate(probe.s)))
         ]_vars


\* the message states what was expected: 'Expected: ...' or 'Expected one of: ...'
HasExpectedPart(message) ==
    \/ Contains(message, <<"E","x","p","e","c","t","e","d",":"," ">>)
    \/ Contains(message, <<"E","x","p","e","c","t","e","d"," ","o","n","e"," ","o","f",":"," ">>)

\* the message states what was received, after the expected part
HasReceivedPart(message) ==
    Contains(message, <<","," ","R","e","c","e","i","v","e","d",":">>)

ErrorKinds == {"ValidationError", "SecurityError", "QueryLimitError", "QueryBuildError"}

\* C24: every error a fluent operation or build() raises, of every kind and
\* the one for an unsafe regular expression included, carries a message with
\* an 'Expected: ...' part and a 'Received: ...' part.
C24_MessagesStateExpectedAndReceived ==
    /\ last.err \in ErrorKinds \cup {"none"}
    /\ last.err \in ErrorKinds => (HasExpectedPart(last.msg) /\ HasReceivedPart(last.msg))


\* text is a brace repetition body n, n, or n,m whose count is 100 or more in
\* either bound or whose upper bound is open
IsLargeCount(text) ==
    LET commas == {i \in 1..Len(text) : text[i] = ","}
        digits(s) == Len(s) >= 1 /\ \A i \in 1..Len(s) : s[i] \in Digit
    IN  IF commas = {} THEN digits(text) /\ StrToNat(text) >= 100
        ELSE /\ Cardinality(commas) = 1
             /\ LET at    == CHOOSE i \in commas : TRUE
                    lower == SubSeq(text, 1, at - 1)
                    upper == SubSeq(text, at + 1, Len(text))
                IN  /\ digits(lower)
                    /\ \/ upper = <<>>
                       \/ digits(upper) /\ (StrToNat(lower) >= 100 \/ StrToNat(upper) >= 100)

\* a parenthesized group of p is followed by a brace repetition with a large
\* count
HasGroupWithLargeCount(p) ==
    \E open, close, lbrace, rbrace \in 1..Len(p) :
        /\ open < close /\ close + 1 = lbrace /\ lbrace < rbrace
        /\ p[open] = "(" /\ p[close] = ")" /\ p[lbrace] = "{" /\ p[rbrace] = "}"
        /\ \A x \in (open + 1)..(close - 1) : p[x] \notin LineTerminator
        /\ IsLargeCount(SubSeq(p, lbrace + 1, rbrace - 1))

\* C25: isSafeRegexPattern rejects every pattern in which a parenthesized
\* group is followed by a brace repetition with a count of 100 or more in
\* either bound or with an open upper bound (whereRegexpMatch and
\* whereNotRegexpMatch then raise SecurityError).
C25_LargeRepetitionsRejected ==
    [][(/\ FluentStep
        /\ probe.kind = "pattern"
        /\ last'.op \in {"whereRegexpMatch", "whereNotRegexpMatch"}
        /\ HasGroupWithLargeCount(probe.s)) =>
           (~isSafeRegexPattern(probe.s) /\ last'.err = "SecurityError")
      ]_vars


\* the running depth after the first i of the parentheses of p (up by one on
\* "(", down by one on ")" but never below zero): the largest excess of "("
\* over ")" in a stretch that ends at i
RunningDepth(parens, i) ==
    LET excess(j) == Cardinality({k \in (j + 1)..i : parens[k] = "("})
                     - Cardinality({k \in (j + 1)..i : parens[k] = ")"})
        stretches == {excess(j) : j \in 0..i}
    IN  CHOOSE d \in stretches : \A e \in stretches : e <= d

IsParen(char) == char \in {"(", ")"}

\* the largest running depth met in p
DeepestNesting(p) ==
    LET parens == SelectSeq(p, IsParen)
        depths == {RunningDepth(parens, i) : i \in 0..Len(parens)}
    IN  CHOOSE d \in depths : \A e \in depths : e <= d

\* C26: isSafeRegexPattern rejects every pattern longer than 1000 characters
\* and every pattern nested deeper than 50 parentheses, and accepts a pattern
\* of at most 1000 characters and depth at most 50 (exactly 1000, exactly 50
\* included) that has none of the dangerous constructs; the depth is the
\* running count of "(" less ")" that never goes below zero.
C26_LengthAndNestingLimits ==
    [][(/\ FluentStep
        /\ probe.kind = "pattern"
        /\ last'.op \in {"whereRegexpMatch", "whereNotRegexpMatch"}) =>
           LET tooLong == Len(probe.s) > 1000
               tooDeep == DeepestNesting(probe.s) > 50
           IN  /\ (tooLong \/ tooDeep) =>
                     (~isSafeRegexPattern(probe.s) /\ last'.err = "SecurityError")
               /\ (~tooLong /\ ~tooDeep /\ ~MatchesDangerousPattern(probe.s)) =>
                     (isSafeRegexPattern(probe.s) /\ last'.err = "none")
      ]_vars

\* a pattern nested exactly 50 deep has been accepted
C26_Witness ==
    /\ probe.kind = "pattern"
    /\ DeepestNesting(probe.s) = 50
    /\ last.op = "whereRegexpMatch"
    /\ last.err = "none"
    /\ Len(b.whereConditions) = 1


\* earlier is a prefix of later
IsPrefixOf(earlier, later) ==
    Len(earlier) <= Len(later) /\ SubSeq(later, 1, Len(earlier)) = earlier

\* C27: accumulated entries are never removed or reordered. A successful
\* condition-adding, groupBy or orderBy call leaves the previous sequence as
\* a prefix of the new one; every other operation, build and every failing
\* call included, leaves conditions, grouping keys and orderings unchanged;
\* no operation returns a set row limit or parameter map to unset or empty,
\* so a later successful build() has a LIMIT and a PARAMETERS clause.
C27_EntriesAreOnlyAppended ==
    [][(last'.op \in FluentOps \cup {"build"} /\ (FluentStep \/ last'.op = "build")) =>
          LET ok == last'.err = "none"
          IN  /\ IF ok /\ last'.op \in ConditionOps
                 THEN IsPrefixOf(b.whereConditions, b'.whereConditions)
                 ELSE b'.whereConditions = b.whereConditions
              /\ IF ok /\ last'.op = "groupBy"
                 THEN IsPrefixOf(b.groupByFields, b'.groupByFields)
                 ELSE b'.groupByFields = b.groupByFields
              /\ IF ok /\ last'.op = "orderBy"
                 THEN IsPrefixOf(b.orderByFields, b'.orderByFields)
                 ELSE b'.orderByFields = b.orderByFields
              /\ b.limitCount # <<>> => b'.limitCount # <<>>
              /\ b.queryParameters.entries # <<>> => b'.queryParameters.entries # <<>>
              /\ (last'.op = "build" /\ ok /\ b.limitCount # <<>>) =>
                     Contains(last'.out, <<" ", "L", "I", "M", "I", "T", " ">>)
              /\ (last'.op = "build" /\ ok /\ b.queryParameters.entries # <<>>) =>
                     Contains(last'.out, <<" ", "P", "A", "R", "A", "M", "E", "T", "E", "R", "S", " ">>)
      ]_vars


(***************************************************************************)
(* A caller whose calls break several constraints at once                  *)
(***************************************************************************)
\* the calls pass the field s (in lists: n copies of it); when sound is
\* FALSE the operator, the direction and the regex pattern they pass are
\* invalid as well
DefectsProbe(s, n, sound) == [kind |-> "defects", s |-> s, n |-> n, v |-> BoolVal(sound)]

DefectsProbes ==
    {DefectsProbe(s, n, sound) : s \in {fA, fInject},
                                 n \in {1, MAX_SELECT_FIELDS + 1},
                                 sound \in BOOLEAN}

\* a builder that holds MAX_WHERE_CONDITIONS conditions
CeilingBuilder == WhereTimes(StartedBuilder, MAX_WHERE_CONDITIONS)

InitDefects ==
    /\ b \in {StartedBuilder, CeilingBuilder}
    /\ last = NoCall
    /\ calls = 0
    /\ probe \in DefectsProbes
    /\ twin = NoTwin
    /\ pending = NoPending

SpecDefects == InitDefects /\ [][Next]_vars

\* C28: the error of a call that breaks several constraints at once follows
\* the order of the checks. where() on 100 conditions raises QueryLimitError
\* whatever its operator and field; below the ceiling an invalid operator is
\* reported before an invalid field; select() of more than 500 elements
\* raises QueryLimitError even when the elements are invalid;
\* whereRegexpMatch reports an invalid field before an unsafe pattern;
\* orderBy reports an invalid direction before an invalid field.
C28_ChecksFollowAnOrder ==
    [][(FluentStep /\ probe.kind = "defects") =>
          LET badField  == ~isValidFieldName(probe.s)
              badOthers == ~probe.v.bo
              atCeiling == Len(b.whereConditions) >= 100
          IN  /\ last'.op \in {"where", "andWhere"} =>
                    /\ atCeiling => last'.err = "QueryLimitError"
                    /\ (~atCeiling /\ badOthers) =>
                           last'.msg = OperatorMessage(<<"=", "=">>)
                    /\ (~atCeiling /\ ~badOthers /\ badField) =>
                           last'.msg = FieldNameMessage(probe.s)
              /\ (last'.op = "select" /\ probe.n > 500) => last'.err = "QueryLimitError"
              /\ last'.op = "whereRegexpMatch" =>
                    /\ badField =>
                           (last'.err = "ValidationError" /\ last'.msg = FieldNameMessage(probe.s))
                    /\ (~badField /\ badOthers) => last'.err = "SecurityError"
              /\ last'.op = "orderBy" =>
                    /\ badOthers => last'.msg = DirectionMessage(<<"a", "s", "c">>)
                    /\ (~badOthers /\ badField) => last'.msg = FieldNameMessage(probe.s)
      ]_vars

\* where() with an invalid operator and an invalid field, on a builder that
\* holds 100 conditions, has raised QueryLimitError
C28_Witness ==
    /\ probe.kind = "defects"
    /\ ~isValidFieldName(probe.s)
    /\ ~probe.v.bo
    /\ Len(b.whereConditions) = 100
    /\ last.op = "where"
    /\ last.err = "QueryLimitError"


(***************************************************************************)
(* A caller that goes on after select and from have succeeded              *)
(***************************************************************************)
InitStarted ==
    /\ b = StartedBuilder
    /\ last = NoCall
    /\ calls = 0
    /\ probe = NoProbe
    /\ twin = NoTwin
    /\ pending = NoPending

SpecStarted == InitStarted /\ [][Next]_vars

\* C29: once select and from have each succeeded on a builder, no later
\* fluent calls, succeeding or failing, make build() raise QueryBuildError:
\* the selected fields and the source never become empty again.
C29_RenderableIsNeverLeft ==
    /\ b.selectFields.items # <<>>
    /\ b.fromResource # <<>>
    /\ build(b).err # "QueryBuildError"
    /\ last.op = "build" => last.err # "QueryBuildError"

\* two calls after select and from succeeded, the last one a from() that
\* raised, and build() still renders
C29_Witness ==
    /\ calls = MaxCalls
    /\ last.op = "from"
    /\ last.err = "ValidationError"
    /\ build(b).err = "none"


(***************************************************************************)
(* A caller that passes one text wherever a call takes a string: as the    *)
(* value, in value lists, as both bounds, as the pattern, as the date and  *)
(* (next to the field 'a') as the field                                    *)
(***************************************************************************)
TextProbe(s) == [kind |-> "text", s |-> s, n |-> 0, v |-> NullVal]

TextProbes ==
    StringsUpTo({"a", Q, " "}, MaxProbeLen) \cup
    { dToday, dLeap, dNotLeap, fAB, fSum, pSafe,
      <<Q, " ", "O", "R", " ", Q, "1", Q, "=", Q, "1">>,
      <<"a", Q, ")", ";", "-", "-">>, <<"\\", Q>> }

InitText == InitProbe({TextProbe(s) : s \in TextProbes})

SpecText == InitText /\ [][Next]_vars

RECURSIVE ReadLiterals(_, _, _, _, _)
\* The string literals of a fragment as a reader of the query finds them,
\* from character i on: a quote opens a literal; inside one, two quotes in a
\* row are one quote of the text and a single quote closes the literal.
\* texts are the literals read so far, text the open one; unclosed tells
\* that the fragment ends inside a literal.
ReadLiterals(fragment, i, inside, text, texts) ==
    IF i > Len(fragment) THEN [texts |-> texts, unclosed |-> inside]
    ELSE IF ~inside
    THEN ReadLiterals(fragment, i + 1, fragment[i] = Q, <<>>, texts)
    ELSE IF fragment[i] # Q
    THEN ReadLiterals(fragment, i + 1, TRUE, Append(text, fragment[i]), texts)
    ELSE IF i < Len(fragment) /\ fragment[i + 1] = Q
    THEN ReadLiterals(fragment, i + 2, TRUE, Append(text, Q), texts)
    ELSE ReadLiterals(fragment, i + 1, FALSE, <<>>, Append(texts, text))

Literals(fragment) == ReadLiterals(fragment, 1, FALSE, <<>>, <<>>)

=============================================================================
